---- MODULE Spec2Model ----
(***************************************************************************)
(* State-machine model of the celine-ai-assistant backend: the /chat       *)
(* streaming pipeline, the attachment endpoints, the identity resolver and *)
(* the OIDC discovery / JWKS caches.                                       *)
(*                                                                         *)
(* The repository ships two packagings of the service: the legacy          *)
(* package  app/  and the current package  src/celine/assistant/ .  The    *)
(* variable  impl  says which one is deployed; every action is translated  *)
(* from the code of the packaging it belongs to.                           *)
(***************************************************************************)
EXTENDS Integers, Sequences, FiniteSets, TLC

(***************************************************************************)
(* Bounds of the model.                                                    *)
(***************************************************************************)
MaxTokens == 2
MaxAttIds == 2
MaxTicks == 2

None == "None"

Impls == {"app", "celine"}

(***************************************************************************)
(* Callers.  An identity is what get_user_identity returns: a user id and  *)
(* the groups claim;  is_admin  looks for the configured admin group.      *)
(***************************************************************************)
admin_group == "admins"

Idents ==
    { [user_id |-> "alice", groups |-> {}],
      [user_id |-> "bob",   groups |-> {}],
      [user_id |-> "root",  groups |-> {"admins"}] }

NoIdent == [user_id |-> None, groups |-> {}]

is_admin(user) == admin_group \in user.groups

(***************************************************************************)
(* Identifiers.  uuid4() is modelled as a draw from a pool of ids that are *)
(* not in use; client-supplied conversation ids may be absent, empty or a  *)
(* fixed string.                                                           *)
(***************************************************************************)
FreshConvIds == {"g1", "g2"}
ClientConvIds == {None, "", "c1"}
AttIdPool == {"a1", "a2"}

\* text is modelled as a sequence of characters
Fragments == { <<"x">>, <<"y", "z">> }
UserTexts == { <<"h", "i">> }
Passages == {"p1", "p2"}
NodeLists == { <<>>, <<"p2", "p1">> }
\* a caption: absent, or a text; " " stands for any whitespace character
\* (the NULL of the column is a text of its own kind)
NoCaption == <<None>>
Cap == <<"c", "a", "p">>
Captions == {NoCaption, <<>>, <<" ">>, Cap, <<" ", "c", " ">>}

SeqsUpTo(S, n) == UNION { [1..k -> S] : k \in 0..n }

VARIABLES
    impl,            \* which packaging is deployed
    conversations,   \* table conversations: set of rows
    messages,        \* table messages, in insertion (rowid) order
    attachments,     \* table attachments: set of rows
    blobs,           \* uploaded files present in blob storage (paths)
    chat,            \* the /chat request in flight
    del,             \* the DELETE /attachments/{id} requests in flight
    resp,            \* the last response of an attachment endpoint
    usedAttIds,      \* attachment ids uuid4() has produced so far
    settings,        \* the oauth2_* settings of the deployment
    clock,           \* time.time(), in seconds
    ticks,           \* number of clock steps so far
    discovery_cache, \* _discovery_cache: issuer -> (expires_at, document)
    jwks_cache,      \* _jwks_cache: url -> (expires_at, key set)
    auth,            \* the get_user_identity calls in flight
    lastFillT,       \* per cache key: start time of the lookup that stored last
    maxFetchT,       \* per cache key: latest start time of a lookup that stored
    cache_lock,      \* _cache_lock: the lookup that holds it, or None
    sess,            \* the HistoryStore calls of the /chat requests in flight
    call,            \* the last call of a HistoryStore method and its result
    store_lock,      \* HistoryStore._lock: the task that holds it, or None
    work             \* the HistoryStore methods being awaited, and their threads

storeVars == <<conversations, messages, attachments, blobs>>
chatVars == <<chat>>
attVars == <<del, resp, usedAttIds>>
authVars == <<settings, clock, ticks, discovery_cache, jwks_cache, auth, lastFillT, maxFetchT,
              cache_lock>>
histVars == <<sess, call, store_lock, work>>
lockVars == <<store_lock, work>>

(***************************************************************************)
(* Server-sent events:  _sse(event_type, data).                            *)
(***************************************************************************)
_sse(event_type, data) == [type |-> event_type, data |-> data]

TerminalTypes == {"done", "error"}

(***************************************************************************)
(* HistoryStore: conversations and messages.                               *)
(***************************************************************************)
ConvRow(cid, user_id, created_at) ==
    [conversation_id |-> cid, user_id |-> user_id, created_at |-> created_at]

\* SELECT ... FROM conversations WHERE conversation_id=? AND user_id=?
Owns(user_id, cid) ==
    \E c \in conversations : c.conversation_id = cid /\ c.user_id = user_id

ConvIdsInUse == { c.conversation_id : c \in conversations }

\* "if conversation_id:" -- None and "" are both falsy
Truthy(s) == s # None /\ s # ""

\* _get_or_create: the id returned for (user_id, conversation_id) when the
\* uuid4() draw is  fresh .
GetOrCreateId(conversation_id, fresh) ==
    IF Truthy(conversation_id) THEN conversation_id ELSE fresh

\* InsertOrIgnore on a table whose conversation_id is no primary key
InsertOrIgnore_mut(table, row) == table \cup {row}

\* "INSERT OR IGNORE INTO conversations ...": conversation_id is the
\* primary key, and a row whose key is taken is dropped without an error
InsertOrIgnore(table, row) ==
    IF \E c \in table : c.conversation_id = row.conversation_id THEN table
    ELSE table \cup {row}

\* GetOrCreateTable with INSERT OR REPLACE and without the SELECT
GetOrCreateTable_mut(user_id, conversation_id, fresh) ==
    LET cid == GetOrCreateId(conversation_id, fresh) IN
    { c \in conversations : c.conversation_id # cid } \cup {ConvRow(cid, user_id, clock)}

\* _get_or_create: the conversations table afterwards.  INSERT OR IGNORE
\* leaves the table alone when the primary key conversation_id is taken.
GetOrCreateTable(user_id, conversation_id, fresh) ==
    LET cid == GetOrCreateId(conversation_id, fresh) IN
    IF Truthy(conversation_id) /\ Owns(user_id, conversation_id)
    THEN conversations
    ELSE InsertOrIgnore(conversations, ConvRow(cid, user_id, clock))

MsgRow(user_id, cid, role, content, created_at) ==
    [conversation_id |-> cid, user_id |-> user_id, role |-> role, content |-> content,
     created_at |-> created_at]

\* _append: a plain INSERT
AppendMessage(user_id, cid, role, content) ==
    Append(messages, MsgRow(user_id, cid, role, content, clock))

\* "".join(assistant_text_parts)
RECURSIVE Join(_)
Join(parts) == IF parts = <<>> THEN <<>> ELSE Head(parts) \o Join(Tail(parts))

(***************************************************************************)
(* HistoryStore: attachments.                                              *)
(***************************************************************************)
AttRow(id, scope, owner, caption, created_at) ==
    [id |-> id, scope |-> scope, owner_user_id |-> owner,
     path |-> id, caption |-> caption, created_at |-> created_at]

\* "no row": what fetchone() returning None is modelled by
NoAtt == AttRow(None, None, None, NoCaption, 0)

\* _get_attachment_any: the row with that id, or no row
get_attachment_any(attachment_id) ==
    IF \E a \in attachments : a.id = attachment_id
    THEN CHOOSE a \in attachments : a.id = attachment_id
    ELSE NoAtt

\* _delete_attachment_any with a DELETE that has no WHERE clause
delete_attachment_any_mut(attachment_id) ==
    IF \E a \in attachments : a.id = attachment_id THEN {} ELSE attachments

\* _delete_attachment_any: the table after DELETE FROM attachments WHERE
\* id=? (nothing is deleted when the SELECT found no row)
delete_attachment_any(attachment_id) ==
    { a \in attachments : a.id # attachment_id }

\* the rows of WHERE scope='system' OR (scope='user' AND owner_user_id=?)
VisibleTo(user_id) ==
    { a \in attachments :
        a.scope = "system" \/ (a.scope = "user" /\ a.owner_user_id = user_id) }

\* ORDER BY created_at DESC: every order of the rows with no row before a
\* newer one; rows of the same second come in an order SQL does not fix
NewestFirst(rows) ==
    { q \in [1..Cardinality(rows) -> rows] :
        /\ \A a \in rows : \E i \in DOMAIN q : q[i] = a
        /\ \A i, j \in DOMAIN q : i < j => q[i].created_at >= q[j].created_at }

\* LIMIT ?: SQLite takes a negative limit as no limit
SqlLimit(rows, limit) ==
    IF limit < 0 \/ limit >= Len(rows) THEN rows ELSE SubSeq(rows, 1, limit)

(***************************************************************************)
(* routes.py: helpers of /chat.                                            *)
(***************************************************************************)
\* _attachment_context_block: one entry per attachment, the caption or the
\* placeholder when the caption is missing or blank
NoDescription == <<"(no description available)">>

\* str.strip(): leading and trailing whitespace removed
RECURSIVE LStrip(_)
LStrip(text) == IF text # <<>> /\ Head(text) = " " THEN LStrip(Tail(text)) ELSE text

RECURSIVE RStrip(_)
RStrip(text) ==
    IF text # <<>> /\ text[Len(text)] = " "
    THEN RStrip(SubSeq(text, 1, Len(text) - 1)) ELSE text

Strip(text) == RStrip(LStrip(text))

\* Described taking every caption that is present as it is
Described_mut(a) == IF a.caption = NoCaption THEN NoDescription ELSE a.caption

\* "caption = (a.get('caption') or '').strip()" and the description line
Described(a) ==
    LET caption == Strip(IF a.caption = NoCaption THEN <<>> ELSE a.caption) IN
    IF caption # <<>> THEN caption ELSE NoDescription

_attachment_context_block(atts) ==
    [source |-> "attached_files",
     files  |-> [i \in 1..Len(atts) |->
                   [filename |-> atts[i].id, scope |-> atts[i].scope,
                    description |-> Described(atts[i])]]]

\* node_to_source for a retrieved node
node_to_source(n) == [source |-> n, files |-> <<>>]

\* sources = [attachment_block, *sources] when attachments were resolved
ContextSet(attached, nodes) ==
    LET srcs == [i \in 1..Len(nodes) |-> node_to_source(nodes[i])] IN
    IF attached # <<>> THEN <<_attachment_context_block(attached)>> \o srcs ELSE srcs

\* AttachmentVerdict with the final raise replaced by a continue
AttachmentVerdict_mut(att, user) ==
    IF att.id = None THEN "skip"
    ELSE IF att.scope = "system" THEN "use"
    ELSE IF att.scope = "user" /\ (att.owner_user_id = user.user_id \/ is_admin(user))
         THEN "use"
    ELSE "skip"

\* what _load_authorized_attachments decides for one row
AttachmentVerdict(att, user) ==
    IF att.id = None THEN "skip"
    ELSE IF att.scope = "system" THEN "use"
    ELSE IF att.scope = "user" /\ (att.owner_user_id = user.user_id \/ is_admin(user))
         THEN "use"
    ELSE "forbidden"

(***************************************************************************)
(* The /chat request.                                                      *)
(***************************************************************************)
\* ChatRequest.top_k when the client leaves it out
DefaultTopK == 5

ChatReqs ==
    [message : UserTexts,
     include_citations : BOOLEAN,
     conversation_id : ClientConvIds,
     attachment_ids : SeqsUpTo(AttIdPool, MaxAttIds),
     top_k : {DefaultTopK}]

\* requests that differ in top_k only
TopKs == {-1, 0, 1, 5, 20, 21}

TopKReqs ==
    [message : UserTexts,
     include_citations : {TRUE},
     conversation_id : {None},
     attachment_ids : {<<>>},
     top_k : TopKs]

NoReq == [message |-> <<>>, include_citations |-> FALSE,
          conversation_id |-> None, attachment_ids |-> <<>>, top_k |-> DefaultTopK]

\* the validation of the request body: the legacy ChatRequest declares
\* top_k with ge=1, le=20; the current one declares a plain int
ValidBody(req) == impl = "app" => req.top_k \in 1..20

ChatIdle ==
    [pc |-> "idle", user |-> NoIdent, req |-> NoReq, conv |-> None,
     idx |-> 1, attached |-> <<>>, sources |-> <<>>, events |-> <<>>,
     parts |-> <<>>, status |-> 0, retrieved |-> FALSE, generation |-> "none",
     cancelled |-> FALSE, is_new |-> FALSE, user_saved |-> FALSE,
     assistant_saved |-> FALSE, retrieve_top_k |-> None]

StreamPcs == {"meta", "sources", "generate", "append_assistant", "done"}

\* chat(): get_or_create_conversation for the resolved caller
ChatStart(user, req, fresh) ==
    /\ chat.pc = "idle"
    /\ ValidBody(req)
    /\ fresh \notin ConvIdsInUse
    /\ impl = "app" => req.attachment_ids = <<>>
    /\ conversations' = GetOrCreateTable(user.user_id, req.conversation_id, fresh)
    /\ chat' = [ChatIdle EXCEPT !.pc = "append_user", !.user = user, !.req = req,
                  !.conv = GetOrCreateId(req.conversation_id, fresh),
                  !.is_new = GetOrCreateId(req.conversation_id, fresh) \notin ConvIdsInUse]
    /\ UNCHANGED <<authVars, histVars, impl, messages, attachments, blobs, attVars>>

\* the body fails validation: 422 before chat() is entered
ChatInvalid(user, req) ==
    /\ chat.pc = "idle"
    /\ ~ValidBody(req)
    /\ chat' = [ChatIdle EXCEPT !.pc = "rejected", !.user = user, !.req = req,
                                !.status = 422]
    /\ UNCHANGED <<authVars, histVars, impl, storeVars, attVars>>

\* ChatAppendUser without the try/except: a failed insert ends the request
\* with the error boundary's 500
ChatAppendUser_mut(ok) ==
    /\ chat.pc = "append_user"
    /\ messages' = IF ok
                   THEN AppendMessage(chat.user.user_id, chat.conv, "user", chat.req.message)
                   ELSE messages
    /\ chat' = IF ok
               THEN [chat EXCEPT !.pc = IF impl = "celine" THEN "load" ELSE "retrieve",
                                 !.user_saved = TRUE]
               ELSE [chat EXCEPT !.pc = "rejected", !.status = 500]
    /\ UNCHANGED <<authVars, histVars, impl, conversations, attachments, blobs, attVars>>

\* chat(): append_message for the user message; an exception is logged and
\* swallowed
ChatAppendUser(ok) ==
    /\ chat.pc = "append_user"
    /\ messages' = IF ok
                   THEN AppendMessage(chat.user.user_id, chat.conv, "user", chat.req.message)
                   ELSE messages
    /\ chat' = [chat EXCEPT !.pc = IF impl = "celine" THEN "load" ELSE "retrieve",
                            !.user_saved = ok]
    /\ UNCHANGED <<authVars, histVars, impl, conversations, attachments, blobs, attVars>>

\* ChatLoadAttachment raising 404 for an id without a row, as the
\* attachment endpoints do
ChatLoadAttachment_mut ==
    /\ chat.pc = "load"
    /\ chat.idx <= Len(chat.req.attachment_ids)
    /\ LET att == get_attachment_any(chat.req.attachment_ids[chat.idx])
           v == AttachmentVerdict(att, chat.user) IN
       chat' = IF att = NoAtt
               THEN [chat EXCEPT !.pc = "rejected", !.status = 404]
               ELSE IF v = "forbidden"
               THEN [chat EXCEPT !.pc = "rejected", !.status = 403]
               ELSE [chat EXCEPT !.idx = @ + 1,
                                 !.attached = IF v = "use" THEN Append(@, att) ELSE @]
    /\ UNCHANGED <<authVars, histVars, impl, storeVars, attVars>>

\* _load_authorized_attachments: one iteration of the loop over attachment_ids
ChatLoadAttachment ==
    /\ chat.pc = "load"
    /\ chat.idx <= Len(chat.req.attachment_ids)
    /\ LET att == get_attachment_any(chat.req.attachment_ids[chat.idx])
           v == AttachmentVerdict(att, chat.user) IN
       chat' = IF v = "forbidden"
               THEN [chat EXCEPT !.pc = "rejected", !.status = 403]
               ELSE [chat EXCEPT !.idx = @ + 1,
                                 !.attached = IF v = "use" THEN Append(@, att) ELSE @]
    /\ UNCHANGED <<authVars, histVars, impl, storeVars, attVars>>

\* _load_authorized_attachments returns
ChatLoadDone ==
    /\ chat.pc = "load"
    /\ chat.idx > Len(chat.req.attachment_ids)
    /\ chat' = [chat EXCEPT !.pc = "retrieve"]
    /\ UNCHANGED <<authVars, histVars, impl, storeVars, attVars>>

\* retrieve(_retriever, req.message, req.top_k): the top_k the retriever is
\* set to
RetrieveTopK(req) == req.top_k

\* retrieve() returns nodes, at most top_k of them (what a retriever set to
\* a top_k below 1 returns is not known); the context set is built and the
\* StreamingResponse is returned
ChatRetrieve(nodes) ==
    /\ chat.pc = "retrieve"
    /\ Len(nodes) <= RetrieveTopK(chat.req) \/ RetrieveTopK(chat.req) < 1
    /\ chat' = [chat EXCEPT !.pc = "meta", !.retrieved = TRUE, !.status = 200,
                            !.retrieve_top_k = RetrieveTopK(chat.req),
                            !.sources = ContextSet(chat.attached, nodes)]
    /\ UNCHANGED <<authVars, histVars, impl, storeVars, attVars>>

\* retrieve() raises: HTTPException(500) in app, the error boundary's 500 in
\* celine
ChatRetrieveFails ==
    /\ chat.pc = "retrieve"
    /\ chat' = [chat EXCEPT !.pc = "rejected", !.retrieved = TRUE, !.status = 500,
                            !.retrieve_top_k = RetrieveTopK(chat.req)]
    /\ UNCHANGED <<authVars, histVars, impl, storeVars, attVars>>

Emit(c, ev) == [c EXCEPT !.events = Append(@, ev)]

\* GenMeta echoing the id of the request instead of the id of the conversation
GenMeta_mut ==
    /\ chat.pc = "meta"
    /\ chat' = [Emit(chat, _sse("meta", chat.req.conversation_id)) EXCEPT
                  !.pc = IF chat.req.include_citations THEN "sources" ELSE "generate"]
    /\ UNCHANGED <<authVars, histVars, impl, storeVars, attVars>>

\* gen(): yield _sse("meta", {"conversation_id": conv.conversation_id})
GenMeta ==
    /\ chat.pc = "meta"
    /\ chat' = [Emit(chat, _sse("meta", chat.conv)) EXCEPT
                  !.pc = IF chat.req.include_citations THEN "sources" ELSE "generate"]
    /\ UNCHANGED <<authVars, histVars, impl, storeVars, attVars>>

\* GenSources sending the retrieved passages without the attachment block
GenSources_mut ==
    /\ chat.pc = "sources"
    /\ chat' = [Emit(chat, _sse("sources", IF chat.attached # <<>>
                                           THEN Tail(chat.sources)
                                           ELSE chat.sources))
                  EXCEPT !.pc = "generate"]
    /\ UNCHANGED <<authVars, histVars, impl, storeVars, attVars>>

\* gen(): yield _sse("sources", sources)
GenSources ==
    /\ chat.pc = "sources"
    /\ chat' = [Emit(chat, _sse("sources", chat.sources)) EXCEPT !.pc = "generate"]
    /\ UNCHANGED <<authVars, histVars, impl, storeVars, attVars>>

\* GenToken accumulating the fragment in front of the earlier ones
GenToken_mut(tok) ==
    /\ chat.pc = "generate"
    /\ Len(chat.parts) < MaxTokens
    /\ chat' = [Emit(chat, _sse("token", tok)) EXCEPT
                  !.parts = <<tok>> \o @, !.generation = "running"]
    /\ UNCHANGED <<authVars, histVars, impl, storeVars, attVars>>

\* gen(): stream_chat yields a fragment
GenToken(tok) ==
    /\ chat.pc = "generate"
    /\ Len(chat.parts) < MaxTokens
    /\ chat' = [Emit(chat, _sse("token", tok)) EXCEPT
                  !.parts = Append(@, tok), !.generation = "running"]
    /\ UNCHANGED <<authVars, histVars, impl, storeVars, attVars>>

\* gen(): stream_chat is exhausted
GenEnd ==
    /\ chat.pc = "generate"
    /\ chat' = [chat EXCEPT !.pc = "append_assistant", !.generation = "completed"]
    /\ UNCHANGED <<authVars, histVars, impl, storeVars, attVars>>

\* what gen() does with an exception raised inside it: app catches it and
\* yields an error event, celine has no handler and the generator dies
GenOnException(c) ==
    IF impl = "app"
    THEN [Emit(c, _sse("error", "generation failed")) EXCEPT !.pc = "closed"]
    ELSE [c EXCEPT !.pc = "closed"]

\* GenRaise with a finally clause that stores the fragments received so far
GenRaise_mut ==
    /\ chat.pc = "generate"
    /\ messages' = AppendMessage(chat.user.user_id, chat.conv, "assistant", Join(chat.parts))
    /\ chat' = GenOnException([chat EXCEPT !.generation = "raised",
                                            !.assistant_saved = TRUE])
    /\ UNCHANGED <<authVars, histVars, impl, conversations, attachments, blobs, attVars>>

\* gen(): stream_chat raises (creating the completion, or between fragments)
GenRaise ==
    /\ chat.pc = "generate"
    /\ chat' = GenOnException([chat EXCEPT !.generation = "raised"])
    /\ UNCHANGED <<authVars, histVars, impl, storeVars, attVars>>

\* GenAppendAssistant without the inner try/except: a failed insert is an
\* exception raised inside gen()
GenAppendAssistant_mut(ok) ==
    /\ chat.pc = "append_assistant"
    /\ messages' = IF ok
                   THEN AppendMessage(chat.user.user_id, chat.conv, "assistant",
                                      Join(chat.parts))
                   ELSE messages
    /\ chat' = IF ok
               THEN [chat EXCEPT !.pc = "done", !.assistant_saved = TRUE]
               ELSE GenOnException(chat)
    /\ UNCHANGED <<authVars, histVars, impl, conversations, attachments, blobs, attVars>>

\* gen(): append_message for the assistant message; an exception is logged
\* and swallowed
GenAppendAssistant(ok) ==
    /\ chat.pc = "append_assistant"
    /\ messages' = IF ok
                   THEN AppendMessage(chat.user.user_id, chat.conv, "assistant",
                                      Join(chat.parts))
                   ELSE messages
    /\ chat' = [chat EXCEPT !.pc = "done", !.assistant_saved = ok]
    /\ UNCHANGED <<authVars, histVars, impl, conversations, attachments, blobs, attVars>>

\* gen(): yield _sse("done", None), after which the generator returns
GenDone ==
    /\ chat.pc = "done"
    /\ chat' = [Emit(chat, _sse("done", None)) EXCEPT !.pc = "closed"]
    /\ UNCHANGED <<authVars, histVars, impl, storeVars, attVars>>

\* ChatCancel with a handler that catches the cancellation like any other
\* exception and yields an error event
ChatCancel_mut(inserted) ==
    /\ chat.pc \in StreamPcs
    /\ inserted => chat.pc = "append_assistant"
    /\ messages' = IF inserted
                   THEN AppendMessage(chat.user.user_id, chat.conv, "assistant",
                                      Join(chat.parts))
                   ELSE messages
    /\ chat' = [Emit(chat, _sse("error", "cancelled")) EXCEPT
                  !.pc = "closed", !.cancelled = TRUE, !.assistant_saved = inserted]
    /\ UNCHANGED <<authVars, histVars, impl, conversations, attachments, blobs, attVars>>

\* the client disconnects while the response is streaming: the generator is
\* cancelled where it is suspended.  An insert already handed to the worker
\* thread still completes.
ChatCancel(inserted) ==
    /\ chat.pc \in StreamPcs
    /\ inserted => chat.pc = "append_assistant"
    /\ messages' = IF inserted
                   THEN AppendMessage(chat.user.user_id, chat.conv, "assistant",
                                      Join(chat.parts))
                   ELSE messages
    /\ chat' = [chat EXCEPT !.pc = "closed", !.cancelled = TRUE,
                            !.assistant_saved = inserted]
    /\ UNCHANGED <<authVars, histVars, impl, conversations, attachments, blobs, attVars>>

(***************************************************************************)
(* The attachment endpoints.                                               *)
(***************************************************************************)
DelSlots == {"d1", "d2"}

\* att: the row the handler looked up; deleted: what delete_attachment_any
\* returned
DelIdle == [pc |-> "idle", user |-> NoIdent, id |-> None, att |-> NoAtt, deleted |-> NoAtt]

Resp(op, user, id, status, att) ==
    [op |-> op, user |-> user, id |-> id, status |-> status, att |-> att]

NoResp == Resp(None, NoIdent, None, 0, NoAtt)

\* POST /upload: the blob is stored, then the row is recorded with
\* scope "user" and the caller as owner
upload_user(user, id, caption) ==
    /\ impl = "celine"
    /\ id \in AttIdPool \ usedAttIds
    /\ usedAttIds' = usedAttIds \cup {id}
    /\ attachments' = attachments \cup {AttRow(id, "user", user.user_id, caption, clock)}
    /\ blobs' = blobs \cup {id}
    /\ resp' = Resp("upload", user, id, 200, AttRow(id, "user", user.user_id, caption, clock))
    /\ UNCHANGED <<authVars, histVars, impl, conversations, messages, chatVars, del>>

\* upload_system without the require_admin dependency
upload_system_mut(user, id, caption) ==
    /\ impl = "celine"
    /\ id \in AttIdPool \ usedAttIds
    /\ usedAttIds' = usedAttIds \cup {id}
    /\ attachments' = attachments \cup {AttRow(id, "system", None, caption, clock)}
    /\ blobs' = blobs \cup {id}
    /\ resp' = Resp("admin_upload", user, id, 200, AttRow(id, "system", None, caption, clock))
    /\ UNCHANGED <<authVars, histVars, impl, conversations, messages, chatVars, del>>

\* POST /admin/uploads: require_admin (403 for everyone else), then as
\* above with scope "system" and no owner
upload_system(user, id, caption) ==
    /\ impl = "celine"
    /\ IF is_admin(user)
       THEN /\ id \in AttIdPool \ usedAttIds
            /\ usedAttIds' = usedAttIds \cup {id}
            /\ attachments' = attachments \cup {AttRow(id, "system", None, caption, clock)}
            /\ blobs' = blobs \cup {id}
            /\ resp' = Resp("admin_upload", user, id, 200, AttRow(id, "system", None, caption, clock))
       ELSE /\ resp' = Resp("admin_upload", user, None, 403, NoAtt)
            /\ UNCHANGED <<usedAttIds, attachments, blobs>>
    /\ UNCHANGED <<authVars, histVars, impl, conversations, messages, chatVars, del>>

\* ReadStatus without the ownership test
ReadStatus_mut(att, user) ==
    IF att.id = None THEN 404
    ELSE IF att.scope = "system" THEN 200
    ELSE IF att.scope = "user" THEN 200
    ELSE 500

\* _get_attachment_authorized: the status, for the row get_attachment_any
\* returned
ReadStatus(att, user) ==
    IF att.id = None THEN 404
    ELSE IF att.scope = "system" THEN 200
    ELSE IF att.scope = "user"
         THEN IF att.owner_user_id = user.user_id \/ is_admin(user) THEN 200 ELSE 403
    ELSE 500

\* GET /attachments/{id}/raw: the row and its blob are served only on 200
get_attachment_raw(user, id) ==
    /\ impl = "celine"
    /\ LET att == get_attachment_any(id)
           st == ReadStatus(att, user) IN
       resp' = Resp("raw", user, id, st, IF st = 200 THEN att ELSE NoAtt)
    /\ UNCHANGED <<authVars, histVars, impl, storeVars, chatVars, del, usedAttIds>>

\* DeleteStatus without the admin test for system scope
DeleteStatus_mut(att, user) ==
    IF att.id = None THEN 404
    ELSE IF att.scope = "user" /\ att.owner_user_id # user.user_id /\ ~is_admin(user)
         THEN 403
    ELSE 200

\* delete_attachment: the status of the checks made before the row is
\* deleted
DeleteStatus(att, user) ==
    IF att.id = None THEN 404
    ELSE IF att.scope = "system" /\ ~is_admin(user) THEN 403
    ELSE IF att.scope = "user" /\ att.owner_user_id # user.user_id /\ ~is_admin(user)
         THEN 403
    ELSE 200

\* DELETE /attachments/{id}: get_attachment_any and the two checks
delete_attachment_check(d, user, id) ==
    /\ impl = "celine"
    /\ del[d].pc = "idle"
    /\ LET att == get_attachment_any(id)
           st == DeleteStatus(att, user) IN
       IF st = 200
       THEN /\ del' = [del EXCEPT ![d] = [pc |-> "row", user |-> user, id |-> id, att |-> att,
                                             deleted |-> NoAtt]]
            /\ UNCHANGED resp
       ELSE /\ resp' = Resp("delete", user, id, st, NoAtt)
            /\ UNCHANGED del
    /\ UNCHANGED <<authVars, histVars, impl, storeVars, chatVars, usedAttIds>>

\* DELETE /attachments/{id}: await delete_attachment_any(attachment_id),
\* which returns dict(row) of the row its SELECT found, or None
delete_attachment_row(d) ==
    /\ del[d].pc = "row"
    /\ attachments' = delete_attachment_any(del[d].id)
    /\ del' = [del EXCEPT ![d].pc = "blob", ![d].deleted = get_attachment_any(del[d].id)]
    /\ UNCHANGED <<authVars, histVars, impl, conversations, messages, blobs, chatVars, resp, usedAttIds>>

\* DELETE /attachments/{id}: delete_upload(att["path"]), whose failure is
\* logged and swallowed, then the "deleted" response
delete_attachment_blob(d, ok) ==
    /\ del[d].pc = "blob"
    /\ blobs' = IF ok THEN blobs \ {del[d].att.path} ELSE blobs
    /\ resp' = Resp("delete", del[d].user, del[d].id, 200, del[d].att)
    /\ del' = [del EXCEPT ![d] = DelIdle]
    /\ UNCHANGED <<authVars, histVars, impl, conversations, messages, attachments, chatVars, usedAttIds>>

(***************************************************************************)
(* auth.py: the discovery and JWKS caches.                                 *)
(***************************************************************************)
_DISCOVERY_TTL_SECONDS == 3600
_JWKS_TTL_SECONDS == 3600

Issuers == {"issA", "issB"}
StaticJwksUrl == "jwksS"

\* the jwks_uri the discovery document of an issuer points to
JwksUriOf(iss) == IF iss = "issA" THEN "jwksA" ELSE "jwksB"

JwksUrls == {StaticJwksUrl} \cup { JwksUriOf(i) : i \in Issuers }
CacheKeys == Issuers \cup JwksUrls

\* what the network can answer: discovery documents with or without a
\* jwks_uri, and key sets
DiscoveryDocs(iss) == { [jwks_uri |-> JwksUriOf(iss)], [jwks_uri |-> None] }
AllDiscoveryDocs == UNION { DiscoveryDocs(i) : i \in Issuers }
KeySets == { [keys |-> {"k1"}], [keys |-> {"k1", "k2"}] }

\* CacheLive with >= for >
CacheLive_mut(cache, key, now) == key \in DOMAIN cache /\ cache[key].expires >= now

\* "cached and cached[0] > now"
CacheLive(cache, key, now) == key \in DOMAIN cache /\ cache[key].expires > now

\* "_cache[key] = (now + TTL, value)"
CacheFill(cache, key, now, ttl, value) ==
    [k \in DOMAIN cache \cup {key} |->
        IF k = key THEN [expires |-> now + ttl, value |-> value] ELSE cache[k]]

EmptyCache == [k \in {} |-> [expires |-> 0, value |-> None]]

(***************************************************************************)
(* auth.py: requests, tokens and identities.                               *)
(***************************************************************************)
ClaimNames == {"sid", "sub", "preferred_username", "name", "email", "user", "uid"}

\* a bearer token: the kid of its header, its claims, and the key that
\* made its signature ("forged" when no key of the issuer did)
Token(kid, iss, aud, signed_by) ==
    [present |-> TRUE, kid |-> kid, iss |-> iss, aud |-> aud, sub |-> "carol",
     signed_by |-> signed_by]

NoToken == [present |-> FALSE, kid |-> None, iss |-> None, aud |-> None,
            sub |-> None, signed_by |-> None]

Tokens ==
    { Token(kid, iss, aud, sb) :
        kid \in {None, "k1", "k2"}, iss \in {None} \cup Issuers,
        aud \in {"aud1", "aud2"}, sb \in {"k1", "k2", "forged"} }

\* the trusted-proxy headers x-auth-request-user and x-auth-request-email
Headers == { [user |-> None, email |-> None],
             [user |-> "dave", email |-> None],
             [user |-> None, email |-> "erin"] }

NoHeaders == [user |-> None, email |-> None]

\* the claims of a token as a mapping from claim name to value
ClaimsOf(token) ==
    [k \in ClaimNames |-> IF k = "sub" THEN token.sub ELSE None]

\* _best_effort_user_from_claims: the first claim, in the order of the
\* packaging, that holds a non-empty string
ClaimOrder ==
    IF impl = "celine"
    THEN <<"sid", "sub", "preferred_username", "name", "email", "user", "uid">>
    ELSE <<"name", "preferred_username", "email", "user", "sub", "uid">>

\* a claim value that is not a string (a number, a list, an object)
NotAString == "<not a string>"

\* str.strip() on the texts of the model: the whitespace-only text gives
\* the empty text, a padded text gives the text without its padding
Padded(text) == " " \o text \o " "
StrStrip(v) ==
    IF v = " " THEN ""
    ELSE IF \E k \in ClaimNames : v = Padded(k) THEN CHOOSE k \in ClaimNames : v = Padded(k)
    ELSE v

\* "isinstance(v, str) and v.strip()" in celine, "isinstance(v, str) and v"
\* in app
Qualifies(v) ==
    /\ v # None
    /\ v # NotAString
    /\ IF impl = "celine" THEN StrStrip(v) # "" ELSE v # ""

\* "return v.strip()" in celine, "return v" in app
Extracted(v) == IF impl = "celine" THEN StrStrip(v) ELSE v

RECURSIVE FirstClaim(_, _)
FirstClaim(claims, order) ==
    IF order = <<>> THEN None
    ELSE IF Qualifies(claims[Head(order)]) THEN Extracted(claims[Head(order)])
    ELSE FirstClaim(claims, Tail(order))

_best_effort_user_from_claims(claims) == FirstClaim(claims, ClaimOrder)

Identity(user_id, source, token) ==
    [user_id |-> user_id, source |-> source, token |-> token]

NoIdentity == Identity(None, None, NoToken)

\* what a cache lookup of the request returned, and from where
Lookup(src, key, now, expires, value) ==
    [src |-> src, key |-> key, now |-> now, expires |-> expires, value |-> value]

NoLookup == Lookup("none", None, 0, 0, None)

AuthIdle ==
    [pc |-> "idle", token |-> NoToken, headers |-> NoHeaders, key |-> None,
     now |-> 0, outcome |-> "none", identity |-> NoIdentity, error |-> None,
     disc |-> NoLookup, jwks |-> NoLookup]

\* TrustedUser without the test of settings.oauth2_trust_headers
TrustedUser_mut(headers) ==
    IF headers.user # None THEN headers.user ELSE headers.email

\* _trusted_identity_from_headers: the user of the headers, or None
TrustedUser(headers) ==
    IF ~settings.oauth2_trust_headers THEN None
    ELSE IF headers.user # None THEN headers.user
    ELSE headers.email

Returned(q, identity) ==
    [q EXCEPT !.pc = "done", !.outcome = "identity", !.identity = identity]

Raised(q, error) ==
    [q EXCEPT !.pc = "done", !.outcome = "AuthError", !.error = error]

\* get_user_identity without a token: trusted headers or AuthError
NoTokenPath(q) ==
    IF impl = "celine" /\ TrustedUser(q.headers) # None
    THEN Returned(q, Identity(TrustedUser(q.headers), "trusted-headers", NoToken))
    ELSE Raised(q, "No user identity found")

\* TokenPathFailed re-raising without looking at the headers
TokenPathFailed_mut(q, error) ==
    [q EXCEPT !.pc = "done", !.outcome = "AuthError", !.error = error]

\* get_user_identity: the except clause around the token path
TokenPathFailed(q, error) ==
    IF impl = "celine" /\ TrustedUser(q.headers) # None
    THEN Returned(q, Identity(TrustedUser(q.headers), "trusted-headers", NoToken))
    ELSE Raised(q, error)

\* DecodeOk with verify_signature off
DecodeOk_mut(token, kid) ==
    /\ settings.oauth2_issuer # None => token.iss = settings.oauth2_issuer
    /\ settings.oauth2_audience # None => token.aud = settings.oauth2_audience

\* jwt.decode with the selected key: signature, then issuer and audience
\* when they are configured
DecodeOk(token, kid) ==
    /\ token.signed_by = kid
    /\ settings.oauth2_issuer # None => token.iss = settings.oauth2_issuer
    /\ settings.oauth2_audience # None => token.aud = settings.oauth2_audience

\* _verify_jwt and the rest of the try block
VerifyStage(q, keyset) ==
    IF q.token.kid = None THEN TokenPathFailed(q, "JWT missing kid header")
    ELSE IF q.token.kid \notin keyset.keys
         THEN TokenPathFailed(q, "No matching JWK for kid")
    ELSE IF ~DecodeOk(q.token, q.token.kid)
         THEN TokenPathFailed(q, "decode failed")
    ELSE LET user == _best_effort_user_from_claims(ClaimsOf(q.token)) IN
         Returned(q, Identity(IF user = None THEN "unknown" ELSE user,
                              "jwt-verified", q.token))

\* _get_jwks(jwks_url) up to its first suspension: a live entry is returned
\* and verification follows, otherwise the key set is fetched
JwksStage(q, jwks_url) ==
    IF CacheLive(jwks_cache, jwks_url, clock)
    THEN VerifyStage([q EXCEPT !.jwks = Lookup("cache", jwks_url, clock,
                                                jwks_cache[jwks_url].expires,
                                                jwks_cache[jwks_url].value)],
                     jwks_cache[jwks_url].value)
    ELSE [q EXCEPT !.pc = "fetch_jwks", !.key = jwks_url, !.now = clock]

\* _jwks_url_from_token after _get_discovery returned
DiscoveredStage(q, discovery) ==
    IF discovery.jwks_uri = None
    THEN TokenPathFailed(q, "OIDC discovery missing jwks_uri")
    ELSE JwksStage(q, discovery.jwks_uri)

\* _get_discovery(iss) up to its first suspension
DiscoveryStage(q, iss) ==
    IF CacheLive(discovery_cache, iss, clock)
    THEN DiscoveredStage([q EXCEPT !.disc = Lookup("cache", iss, clock,
                                                    discovery_cache[iss].expires,
                                                    discovery_cache[iss].value)],
                         discovery_cache[iss].value)
    ELSE [q EXCEPT !.pc = "fetch_discovery", !.key = iss, !.now = clock]

\* JwksUrlStage without the comparison of iss with settings.oauth2_issuer
JwksUrlStage_mut(q) ==
    IF impl = "celine" /\ settings.oauth2_jwks_url # None
    THEN JwksStage(q, settings.oauth2_jwks_url)
    ELSE IF q.token.iss = None THEN TokenPathFailed(q, "JWT missing iss claim")
    ELSE DiscoveryStage(q, q.token.iss)

\* _jwks_url_from_token
JwksUrlStage(q) ==
    IF impl = "celine" /\ settings.oauth2_jwks_url # None
    THEN JwksStage(q, settings.oauth2_jwks_url)
    ELSE IF q.token.iss = None THEN TokenPathFailed(q, "JWT missing iss claim")
    ELSE IF settings.oauth2_issuer # None /\ q.token.iss # settings.oauth2_issuer
         THEN TokenPathFailed(q, "JWT issuer mismatch")
    ELSE DiscoveryStage(q, q.token.iss)

AuthSlots == {"r1", "r2"}

\* get_user_identity, up to its first suspension
get_user_identity(r, token, headers) ==
    /\ auth[r].pc = "idle"
    /\ LET q == [AuthIdle EXCEPT !.token = token, !.headers = headers] IN
       auth' = [auth EXCEPT ![r] = IF token.present THEN JwksUrlStage(q)
                                   ELSE NoTokenPath(q)]
    /\ UNCHANGED <<settings, clock, ticks, discovery_cache, jwks_cache, lastFillT,
                   maxFetchT>>
    /\ UNCHANGED <<impl, storeVars, chatVars, attVars, histVars, cache_lock>>

Max(a, b) == IF a >= b THEN a ELSE b

\* _get_discovery: the document arrived; it is stored with the expiry
\* computed from the time the lookup started, and resolution goes on
DiscoveryFetched(r, discovery) ==
    /\ auth[r].pc = "fetch_discovery"
    /\ discovery \in DiscoveryDocs(auth[r].key)
    /\ discovery_cache' = CacheFill(discovery_cache, auth[r].key, auth[r].now,
                                    _DISCOVERY_TTL_SECONDS, discovery)
    /\ lastFillT' = [lastFillT EXCEPT ![auth[r].key] = auth[r].now]
    /\ maxFetchT' = [maxFetchT EXCEPT ![auth[r].key] = Max(@, auth[r].now)]
    /\ auth' = [auth EXCEPT ![r] =
                  DiscoveredStage([auth[r] EXCEPT
                                     !.disc = Lookup("network", auth[r].key, auth[r].now,
                                                     auth[r].now + _DISCOVERY_TTL_SECONDS,
                                                     discovery)],
                                  discovery)]
    /\ UNCHANGED <<settings, clock, ticks, jwks_cache>>
    /\ UNCHANGED <<impl, storeVars, chatVars, attVars, histVars, cache_lock>>

\* _get_jwks: the key set arrived
JwksFetched(r, keyset) ==
    /\ auth[r].pc = "fetch_jwks"
    /\ jwks_cache' = CacheFill(jwks_cache, auth[r].key, auth[r].now,
                               _JWKS_TTL_SECONDS, keyset)
    /\ lastFillT' = [lastFillT EXCEPT ![auth[r].key] = auth[r].now]
    /\ maxFetchT' = [maxFetchT EXCEPT ![auth[r].key] = Max(@, auth[r].now)]
    /\ auth' = [auth EXCEPT ![r] =
                  VerifyStage([auth[r] EXCEPT
                                 !.jwks = Lookup("network", auth[r].key, auth[r].now,
                                                 auth[r].now + _JWKS_TTL_SECONDS, keyset)],
                              keyset)]
    /\ UNCHANGED <<settings, clock, ticks, discovery_cache>>
    /\ UNCHANGED <<impl, storeVars, chatVars, attVars, histVars, cache_lock>>

\* FetchFails with an except clause that clears the two caches
FetchFails_mut(r) ==
    /\ auth[r].pc \in {"fetch_discovery", "fetch_jwks"}
    /\ auth' = [auth EXCEPT ![r] = TokenPathFailed(auth[r], "fetch failed")]
    /\ discovery_cache' = EmptyCache
    /\ jwks_cache' = EmptyCache
    /\ UNCHANGED <<settings, clock, ticks, lastFillT, maxFetchT>>
    /\ UNCHANGED <<impl, storeVars, chatVars, attVars, histVars, cache_lock>>

\* _http_get_json raises: transport error, error status, or a body that is
\* not a JSON object
FetchFails(r) ==
    /\ auth[r].pc \in {"fetch_discovery", "fetch_jwks"}
    /\ auth' = [auth EXCEPT ![r] = TokenPathFailed(auth[r], "fetch failed")]
    /\ UNCHANGED <<settings, clock, ticks, discovery_cache, jwks_cache, lastFillT,
                   maxFetchT>>
    /\ UNCHANGED <<impl, storeVars, chatVars, attVars, histVars, cache_lock>>

\* the request is answered; the next one may come
AuthFinish(r) ==
    /\ auth[r].pc = "done"
    /\ auth' = [auth EXCEPT ![r] = AuthIdle]
    /\ UNCHANGED <<settings, clock, ticks, discovery_cache, jwks_cache, lastFillT,
                   maxFetchT>>
    /\ UNCHANGED <<impl, storeVars, chatVars, attVars, histVars, cache_lock>>

(***************************************************************************)
(* auth.py: _get_discovery and _get_jwks with _cache_lock as an object:    *)
(* the lookup takes the time, enters "async with _cache_lock" for the      *)
(* check, leaves it, awaits _http_get_json, and enters it again for the    *)
(* fill.                                                                   *)
(***************************************************************************)
\* the keys the lookups of this part ask for
LockKeys == {"jwksA", "jwksB"}

TtlOf(key) == IF key \in Issuers THEN _DISCOVERY_TTL_SECONDS ELSE _JWKS_TTL_SECONDS
CacheOf(key) == IF key \in Issuers THEN discovery_cache ELSE jwks_cache
FetchPc(key) == IF key \in Issuers THEN "fetch_discovery" ELSE "fetch_jwks"
\* what _http_get_json can return for the key
FetchValues(key) == IF key \in Issuers THEN DiscoveryDocs(key) ELSE KeySets

\* the result of the lookup of q, kept in q.disc or q.jwks
WithResult(q, lookup) ==
    IF q.key \in Issuers THEN [q EXCEPT !.disc = lookup] ELSE [q EXCEPT !.jwks = lookup]
ResultOf(q) == IF q.key \in Issuers THEN q.disc ELSE q.jwks

\* "now = time.time()", up to the first "async with _cache_lock"
cache_get(r, key) ==
    /\ auth[r].pc = "idle"
    /\ auth' = [auth EXCEPT ![r] = [AuthIdle EXCEPT !.pc = "lock_check", !.key = key,
                                                     !.now = clock]]
    /\ UNCHANGED <<settings, clock, ticks, discovery_cache, jwks_cache, lastFillT,
                   maxFetchT, cache_lock>>
    /\ UNCHANGED <<impl, storeVars, chatVars, attVars, histVars>>

\* _cache_lock.acquire(): the lock is free and is taken
lock_acquire(r) ==
    /\ auth[r].pc \in {"lock_check", "lock_fill"}
    /\ cache_lock = None
    /\ cache_lock' = r
    /\ auth' = [auth EXCEPT ![r].pc = IF @ = "lock_check" THEN "check" ELSE "fill"]
    /\ UNCHANGED <<settings, clock, ticks, discovery_cache, jwks_cache, lastFillT,
                   maxFetchT>>
    /\ UNCHANGED <<impl, storeVars, chatVars, attVars, histVars>>

\* LockAfterCheck of a check that keeps the lock while it fetches
LockAfterCheck_mut(r, hit) == IF hit THEN None ELSE r

\* the lock after the first with block: released on both exits
LockAfterCheck(r, hit) == None

\* the first with block: a live entry is returned, otherwise the block is
\* left and _http_get_json is awaited
cache_check(r) ==
    /\ auth[r].pc = "check"
    /\ cache_lock = r
    /\ LET q == auth[r]
           cache == CacheOf(q.key)
           hit == CacheLive(cache, q.key, q.now) IN
       /\ auth' = [auth EXCEPT ![r] =
                     IF hit
                     THEN [WithResult(q, Lookup("cache", q.key, q.now,
                                                cache[q.key].expires,
                                                cache[q.key].value))
                             EXCEPT !.pc = "done"]
                     ELSE [q EXCEPT !.pc = FetchPc(q.key)]]
       /\ cache_lock' = LockAfterCheck(r, hit)
    /\ UNCHANGED <<settings, clock, ticks, discovery_cache, jwks_cache, lastFillT,
                   maxFetchT>>
    /\ UNCHANGED <<impl, storeVars, chatVars, attVars, histVars>>

\* _http_get_json returned; up to the second "async with _cache_lock"
http_get_json(r, value) ==
    /\ auth[r].pc \in {"fetch_discovery", "fetch_jwks"}
    /\ value \in FetchValues(auth[r].key)
    /\ LET q == auth[r] IN
       auth' = [auth EXCEPT ![r] =
                  [WithResult(q, Lookup("network", q.key, q.now, q.now + TtlOf(q.key),
                                        value))
                     EXCEPT !.pc = "lock_fill"]]
    /\ UNCHANGED <<settings, clock, ticks, discovery_cache, jwks_cache, lastFillT,
                   maxFetchT, cache_lock>>
    /\ UNCHANGED <<impl, storeVars, chatVars, attVars, histVars>>

\* the second with block: "_cache[key] = (now + TTL, value)", and return
cache_fill(r) ==
    /\ auth[r].pc = "fill"
    /\ cache_lock = r
    /\ LET q == auth[r]
           filled == CacheFill(CacheOf(q.key), q.key, q.now, TtlOf(q.key),
                               ResultOf(q).value) IN
       /\ discovery_cache' = IF q.key \in Issuers THEN filled ELSE discovery_cache
       /\ jwks_cache' = IF q.key \in Issuers THEN jwks_cache ELSE filled
       /\ lastFillT' = [lastFillT EXCEPT ![q.key] = q.now]
       /\ maxFetchT' = [maxFetchT EXCEPT ![q.key] = Max(@, q.now)]
    /\ auth' = [auth EXCEPT ![r].pc = "done"]
    /\ cache_lock' = None
    /\ UNCHANGED <<settings, clock, ticks>>
    /\ UNCHANGED <<impl, storeVars, chatVars, attVars, histVars>>

\* time passes
TickSteps == {1, _JWKS_TTL_SECONDS - 1}

Tick(d) ==
    /\ ticks < MaxTicks
    /\ ticks' = ticks + 1
    /\ clock' = clock + d
    /\ UNCHANGED <<settings, discovery_cache, jwks_cache, auth, lastFillT, maxFetchT>>
    /\ UNCHANGED <<impl, storeVars, chatVars, attVars, histVars, cache_lock>>

(***************************************************************************)
(* HistoryStore as the routes call it: each /chat request resolves its     *)
(* conversation and appends the user message and then the assistant        *)
(* message; GET /conversations/{id}/messages and DELETE /conversations/{id}*)
(* call list_messages and delete_conversation.  Every call runs under the  *)
(* store lock in one transaction, so each is one step.                     *)
(***************************************************************************)
MaxCalls == 4

Users == {"alice", "bob"}
StoredConvIds == {"c1"} \cup FreshConvIds
\* the conversation_id of a request: absent, or an id the client made up
RequestConvIds == {None, "c1"}
\* the text of the message of the k-th call
MsgText(k) == <<"m", k>>
Limits == {1, 500}

SessSlots == {"s1", "s2"}

SessIdle == [pc |-> "idle", user_id |-> None, conv |-> None]

\* a call of a HistoryStore method: its arguments and what it returned
Call(n, op, user_id, conversation_id, limit, result) ==
    [n |-> n, op |-> op, user_id |-> user_id, conversation_id |-> conversation_id,
     limit |-> limit, result |-> result]

NoCall == Call(0, "none", None, None, 0, None)

\* conversation ids that were handed out at some time and left a trace
IdsSeen ==
    ConvIdsInUse \cup { messages[i].conversation_id : i \in DOMAIN messages }
                 \cup { sess[s].conv : s \in SessSlots }

\* MessagesOf with WHERE conversation_id=? alone
MessagesOf_mut(user_id, cid) ==
    SelectSeq(messages, LAMBDA m : m.conversation_id = cid)

\* the messages of (user_id, conversation_id), in rowid order
MessagesOf(user_id, cid) ==
    SelectSeq(messages, LAMBDA m : m.user_id = user_id /\ m.conversation_id = cid)

\* InsertRow placing a row before the rows with the same created_at
InsertRow_mut(sorted, row) ==
    LET k == Cardinality({ i \in DOMAIN sorted : sorted[i].created_at < row.created_at })
    IN SubSeq(sorted, 1, k) \o <<row>> \o SubSeq(sorted, k + 1, Len(sorted))

\* the sorter of ORDER BY created_at ASC: a row goes after the rows whose
\* key is smaller or equal, so rows with equal keys stay in scan order
InsertRow(sorted, row) ==
    LET k == Cardinality({ i \in DOMAIN sorted : sorted[i].created_at <= row.created_at })
    IN SubSeq(sorted, 1, k) \o <<row>> \o SubSeq(sorted, k + 1, Len(sorted))

RECURSIVE OrderByCreatedAt(_)
OrderByCreatedAt(rows) ==
    IF rows = <<>> THEN <<>>
    ELSE InsertRow(OrderByCreatedAt(SubSeq(rows, 1, Len(rows) - 1)), rows[Len(rows)])

\* the columns _list_messages selects
Listed(m) == [role |-> m.role, content |-> m.content, created_at |-> m.created_at]

\* _list_messages: WHERE user_id=? AND conversation_id=? ORDER BY created_at
\* ASC LIMIT ?
ListMessages(user_id, cid, limit) ==
    LET sorted == OrderByCreatedAt(MessagesOf(user_id, cid))
        n == IF limit < Len(sorted) THEN limit ELSE Len(sorted)
    IN [i \in 1..n |-> Listed(sorted[i])]

\* DeleteOutcome without the test of the conversation row
DeleteOutcome_mut(user_id, cid) ==
    [result |-> TRUE,
     messages |-> SelectSeq(messages, LAMBDA m :
                      ~(m.conversation_id = cid /\ m.user_id = user_id)),
     conversations |-> { c \in conversations :
                           ~(c.conversation_id = cid /\ c.user_id = user_id) }]

\* _delete_conversation: False when the caller has no such row; otherwise
\* both DELETEs, committed together
DeleteOutcome(user_id, cid) ==
    IF ~Owns(user_id, cid)
    THEN [result |-> FALSE, messages |-> messages, conversations |-> conversations]
    ELSE [result |-> TRUE,
          messages |-> SelectSeq(messages, LAMBDA m :
                           ~(m.conversation_id = cid /\ m.user_id = user_id)),
          conversations |-> { c \in conversations :
                                ~(c.conversation_id = cid /\ c.user_id = user_id) }]

\* uuid4(): an id that was never handed out; which one is immaterial, so
\* the draw takes the first of the pool
FirstFresh(pool) ==
    IF "g1" \in pool THEN "g1" ELSE "g2"

\* chat(): get_or_create_conversation(user.user_id, req.conversation_id);
\* a request takes the first slot that is free
get_or_create_conversation(s, user_id, conversation_id, fresh) ==
    /\ sess[s].pc = "idle"
    /\ s = "s2" => sess["s1"].pc # "idle"
    /\ call.n < MaxCalls
    /\ FreshConvIds \ IdsSeen # {}
    /\ fresh = FirstFresh(FreshConvIds \ IdsSeen)
    /\ conversations' = GetOrCreateTable(user_id, conversation_id, fresh)
    /\ sess' = [sess EXCEPT ![s] = [pc |-> "user", user_id |-> user_id,
                                    conv |-> GetOrCreateId(conversation_id, fresh)]]
    /\ call' = Call(call.n + 1, "get_or_create", user_id, conversation_id, 0,
                    GetOrCreateId(conversation_id, fresh))
    /\ UNCHANGED <<lockVars, authVars, impl, messages, attachments, blobs, chatVars, attVars>>

\* chat() and chat.gen(): append_message for the user message, then for the
\* assistant message
append_message(s, content) ==
    /\ sess[s].pc \in {"user", "assistant"}
    /\ call.n < MaxCalls
    /\ LET role == sess[s].pc IN
       /\ messages' = AppendMessage(sess[s].user_id, sess[s].conv, role, content)
       /\ call' = Call(call.n + 1, "append_message", sess[s].user_id, sess[s].conv, 0, role)
    /\ sess' = [sess EXCEPT ![s] = IF sess[s].pc = "user"
                                   THEN [@ EXCEPT !.pc = "assistant"]
                                   ELSE SessIdle]
    /\ UNCHANGED <<lockVars, authVars, impl, conversations, attachments, blobs, chatVars, attVars>>

\* the request ends without its next append: 403, 500, a failed insert or a
\* disconnect
session_end(s) ==
    /\ sess[s].pc \in {"user", "assistant"}
    /\ sess' = [sess EXCEPT ![s] = SessIdle]
    /\ UNCHANGED <<lockVars, authVars, impl, storeVars, chatVars, attVars, call>>

\* the ids a client can name: the one it made up and those /chat returned
KnownConvIds == {"c1"} \cup IdsSeen

\* HistoryStore.list_messages
list_messages(user_id, cid, limit) ==
    /\ call.n < MaxCalls
    /\ cid \in KnownConvIds
    /\ call' = Call(call.n + 1, "list_messages", user_id, cid, limit,
                    ListMessages(user_id, cid, limit))
    /\ UNCHANGED <<lockVars, authVars, impl, storeVars, chatVars, attVars, sess>>

\* HistoryStore.delete_conversation
delete_conversation(user_id, cid) ==
    /\ call.n < MaxCalls
    /\ cid \in KnownConvIds
    /\ LET out == DeleteOutcome(user_id, cid) IN
       /\ messages' = out.messages
       /\ conversations' = out.conversations
       /\ call' = Call(call.n + 1, "delete_conversation", user_id, cid, 0, out.result)
    /\ UNCHANGED <<lockVars, authVars, impl, attachments, blobs, chatVars, attVars, sess>>

\* the sorter of ORDER BY created_at DESC: a row goes after the rows whose
\* key is greater or equal, so rows with equal keys stay in scan order
InsertRowDesc(sorted, row) ==
    LET k == Cardinality({ i \in DOMAIN sorted : sorted[i].created_at >= row.created_at })
    IN SubSeq(sorted, 1, k) \o <<row>> \o SubSeq(sorted, k + 1, Len(sorted))

RECURSIVE OrderByCreatedAtDesc(_)
OrderByCreatedAtDesc(rows) ==
    IF rows = <<>> THEN <<>>
    ELSE InsertRowDesc(OrderByCreatedAtDesc(SubSeq(rows, 1, Len(rows) - 1)),
                       rows[Len(rows)])

\* SUBSTR(m.content, 1, 140)
SnippetLen == 140
Substr(text, n) == IF Len(text) <= n THEN text ELSE SubSeq(text, 1, n)

\* the NULL of a subquery without rows
NoSnippet == <<None>>

RECURSIVE MaxCreatedAt(_)
MaxCreatedAt(rows) ==
    IF Len(rows) = 1 THEN rows[1].created_at
    ELSE Max(rows[Len(rows)].created_at, MaxCreatedAt(SubSeq(rows, 1, Len(rows) - 1)))

\* COALESCE((SELECT MAX(m.created_at) ...), c.created_at)
LastMessageAt(c) ==
    LET msgs == MessagesOf(c.user_id, c.conversation_id) IN
    IF msgs = <<>> THEN c.created_at ELSE MaxCreatedAt(msgs)

\* the columns _list_conversations selects for the conversation row c
ConversationItem(c) ==
    LET msgs == MessagesOf(c.user_id, c.conversation_id) IN
    [conversation_id |-> c.conversation_id,
     created_at |-> c.created_at,
     last_message_at |-> LastMessageAt(c),
     message_count |-> Len(msgs),
     last_snippet |-> IF msgs = <<>> THEN NoSnippet
                      ELSE Substr(OrderByCreatedAtDesc(msgs)[1].content, SnippetLen)]

\* WHERE c.user_id=? ORDER BY last_message_at DESC: every order of the
\* caller's rows with no row before one of later activity
LatestFirst(user_id) ==
    LET mine == { c \in conversations : c.user_id = user_id } IN
    { q \in [1..Cardinality(mine) -> mine] :
        /\ \A c \in mine : \E i \in DOMAIN q : q[i] = c
        /\ \A i, j \in DOMAIN q : i < j => LastMessageAt(q[i]) >= LastMessageAt(q[j]) }

\* LIMIT ? OFFSET ? with a limit of at least 1 and an offset of at least 0
SqlLimitOffset(rows, limit, offset) ==
    IF offset >= Len(rows) THEN <<>>
    ELSE SubSeq(rows, offset + 1, IF offset + limit < Len(rows) THEN offset + limit
                                  ELSE Len(rows))

\* GET /conversations: limit and offset as the route bounds them
ConvLimits == {1, 200}
ConvOffsets == {0, 1}

\* HistoryStore.list_conversations(user.user_id, limit, offset), the rows
\* coming in the order  rows
list_conversations(user_id, limit, offset, rows) ==
    /\ call.n < MaxCalls
    /\ rows \in LatestFirst(user_id)
    /\ call' = Call(call.n + 1, "list_conversations", user_id, offset, limit,
                    SqlLimitOffset([i \in DOMAIN rows |-> ConversationItem(rows[i])],
                                   limit, offset))
    /\ UNCHANGED <<lockVars, authVars, impl, storeVars, chatVars, attVars, sess>>

\* GET /conversations/{id}/messages: "limit=200" of the existence scan
ScanLimit == 200

\* "limit = max(1, min(int(limit), 500))"
ClampLimit(limit) == IF limit > 500 THEN 500 ELSE IF limit < 1 THEN 1 ELSE limit

\* "any(c.get("conversation_id") == conversation_id for c in page)" over the
\* page of list_conversations(user_id, limit=200, offset=0): the answers the
\* scan can give.  The row of the id is on the page when fewer than 200
\* rows of the caller come before it in ORDER BY last_message_at DESC; rows
\* with the same last_message_at come before or after it.
PageHas(user_id, cid) ==
    LET mine == { c \in conversations : c.user_id = user_id }
        hit == { c \in mine : c.conversation_id = cid }
    IN IF hit = {} THEN {FALSE}
       ELSE LET c == CHOOSE c \in hit : TRUE
                ahead == { d \in mine : LastMessageAt(d) > LastMessageAt(c) }
                level == { d \in mine \ {c} : LastMessageAt(d) >= LastMessageAt(c) }
            IN { b \in BOOLEAN : IF b THEN Cardinality(ahead) < ScanLimit
                                  ELSE Cardinality(level) >= ScanLimit }

\* what GET /conversations/{id}/messages answers
MessagesResponse(status, msgs) == [status |-> status, messages |-> msgs]

\* conversation_messages up to list_messages: the two list_conversations
\* calls and the 404.  The legacy get_messages has no such check and is at
\* its list_messages call at once.
conversation_scan(s, user_id, cid, found) ==
    /\ sess[s].pc = "idle"
    /\ call.n < MaxCalls
    /\ IF impl = "celine"
       THEN /\ found \in PageHas(user_id, cid)
            /\ call' = Call(call.n + 1, "conversation_scan", user_id, cid, ScanLimit,
                            MessagesResponse(IF found THEN 0 ELSE 404, <<>>))
            /\ sess' = [sess EXCEPT ![s] =
                          IF found THEN [pc |-> "messages", user_id |-> user_id, conv |-> cid]
                          ELSE SessIdle]
       ELSE /\ found
            /\ call' = call
            /\ sess' = [sess EXCEPT ![s] = [pc |-> "messages", user_id |-> user_id,
                                            conv |-> cid]]
    /\ UNCHANGED <<lockVars, authVars, impl, storeVars, chatVars, attVars>>

\* conversation_messages: list_messages(user.user_id, conversation_id,
\* limit) and the 200; the limit of the request plays no part before this
\* call.  The legacy get_messages passes limit=200.
conversation_messages(s, limit) ==
    /\ sess[s].pc = "messages"
    /\ call.n < MaxCalls
    /\ LET n == IF impl = "celine" THEN ClampLimit(limit) ELSE 200 IN
       call' = Call(call.n + 1, "conversation_messages", sess[s].user_id, sess[s].conv, n,
                    MessagesResponse(200, ListMessages(sess[s].user_id, sess[s].conv, n)))
    /\ sess' = [sess EXCEPT ![s] = SessIdle]
    /\ UNCHANGED <<lockVars, authVars, impl, storeVars, chatVars, attVars>>

\* the limit query parameter of GET /attachments: any integer, 200 when
\* absent
AttLimits == {-1, 0, 1, 200}

\* GET /attachments: HistoryStore.list_attachments_for_user(user.user_id,
\* limit), the rows coming in the order  rows
list_attachments_for_user(user_id, limit, rows) ==
    /\ impl = "celine"
    /\ call.n < MaxCalls
    /\ rows \in NewestFirst(VisibleTo(user_id))
    /\ call' = Call(call.n + 1, "list_attachments", user_id, None, limit,
                    SqlLimit(rows, limit))
    /\ UNCHANGED <<lockVars, authVars, impl, storeVars, chatVars, attVars, sess>>

(***************************************************************************)
(* HistoryStore with _lock as an object.  A method is                      *)
(*     async with self._lock: return await asyncio.to_thread(self._m, ...) *)
(* so the task waits for the lock, hands _m to a worker thread and awaits  *)
(* it with the lock held.  _m opens its own connection and commits once.   *)
(* A task cancelled while it awaits leaves the with block, which releases  *)
(* the lock; a thread that has started is not stopped by the cancellation. *)
(* Of the awaits of the routes, the one of the assistant message is inside *)
(* the response generator, which a client disconnect cancels.              *)
(***************************************************************************)
MaxDetached == 1

StoreTasks == {"t1", "t2"}

StoreOp(name, user_id, cid, role, content) ==
    [name |-> name, user_id |-> user_id, conversation_id |-> cid, role |-> role,
     content |-> content]

NoOp == StoreOp("none", None, None, None, None)

TaskIdle == [pc |-> "idle", op |-> NoOp, row |-> FALSE]

NoWork == [tasks |-> [t \in StoreTasks |-> TaskIdle], detached |-> {}]

\* the calls the requests of alice make on her conversation "c1"
LockedOps(k) ==
    { StoreOp("append_message", "alice", "c1", role, MsgText(k)) :
        role \in {"user", "assistant"} }
    \cup { StoreOp("list_messages", "alice", "c1", None, None),
           StoreOp("delete_conversation", "alice", "c1", None, None) }

\* the threads that are inside a method of the store
InStore == { t \in StoreTasks : work.tasks[t].pc \in {"thread", "selected"} }

\* calls that will still be logged
Pending ==
    Cardinality({ t \in StoreTasks : work.tasks[t].pc # "idle" })
        + Cardinality(work.detached)

\* a route awaits a method of the store: "async with self._lock" is reached
store_call(t, op) ==
    /\ work.tasks[t].pc = "idle"
    /\ call.n + Pending < MaxCalls
    /\ work' = [work EXCEPT !.tasks[t] = [pc |-> "wait", op |-> op, row |-> FALSE]]
    /\ UNCHANGED <<authVars, impl, storeVars, chatVars, attVars, sess, call, store_lock>>

\* self._lock is free: the task takes it and hands the method to a thread
store_enter(t) ==
    /\ work.tasks[t].pc = "wait"
    /\ store_lock = None
    /\ store_lock' = t
    /\ work' = [work EXCEPT !.tasks[t].pc = "thread"]
    /\ UNCHANGED <<authVars, impl, storeVars, chatVars, attVars, sess, call>>

\* the methods that start with a SELECT of the conversation row:
\* _delete_conversation, and _get_or_create when it is given an id
HasSelect(op) ==
    \/ op.name = "delete_conversation"
    \/ op.name = "get_or_create" /\ Truthy(op.conversation_id)

\* _delete_conversation: the SELECT of the conversation row, before the
\* transaction of the two DELETEs; _get_or_create: the SELECT before the
\* INSERT OR IGNORE
store_select(t) ==
    /\ work.tasks[t].pc = "thread"
    /\ HasSelect(work.tasks[t].op)
    /\ work' = [work EXCEPT !.tasks[t].pc = "selected",
                            !.tasks[t].row = Owns(work.tasks[t].op.user_id,
                                                  work.tasks[t].op.conversation_id)]
    /\ UNCHANGED <<authVars, impl, storeVars, chatVars, attVars, sess, call, store_lock>>

\* the table messages after the commit of the method of task t
MessagesAfter(q) ==
    IF q.op.name = "append_message"
    THEN AppendMessage(q.op.user_id, q.op.conversation_id, q.op.role, q.op.content)
    ELSE IF q.op.name = "delete_conversation" /\ q.row
    THEN SelectSeq(messages, LAMBDA m :
             ~(m.conversation_id = q.op.conversation_id /\ m.user_id = q.op.user_id))
    ELSE messages

ConversationsAfter(q) ==
    IF q.op.name = "delete_conversation" /\ q.row
    THEN { c \in conversations :
             ~(c.conversation_id = q.op.conversation_id /\ c.user_id = q.op.user_id) }
    ELSE IF q.op.name = "get_or_create" /\ ~q.row
    THEN InsertOrIgnore(conversations,
                        ConvRow(GetOrCreateId(q.op.conversation_id,
                                              FirstFresh(FreshConvIds \ IdsSeen)),
                                q.op.user_id, clock))
    ELSE conversations

ReturnedBy(q) ==
    IF q.op.name = "append_message" THEN q.op.role
    ELSE IF q.op.name = "delete_conversation" THEN q.row
    ELSE IF q.op.name = "get_or_create"
    THEN GetOrCreateId(q.op.conversation_id, FirstFresh(FreshConvIds \ IdsSeen))
    ELSE ListMessages(q.op.user_id, q.op.conversation_id, 500)

\* the thread commits and returns, the task leaves the with block
store_return(t) ==
    /\ store_lock = t
    /\ LET q == work.tasks[t] IN
       /\ q.pc = (IF HasSelect(q.op) THEN "selected" ELSE "thread")
       /\ messages' = MessagesAfter(q)
       /\ conversations' = ConversationsAfter(q)
       /\ call' = Call(call.n + 1, q.op.name, q.op.user_id, q.op.conversation_id, 500,
                       ReturnedBy(q))
    /\ store_lock' = None
    /\ work' = [work EXCEPT !.tasks[t] = TaskIdle]
    /\ UNCHANGED <<authVars, impl, attachments, blobs, chatVars, attVars, sess>>

\* gen() is cancelled at "await ...append_message(..., 'assistant', ...)":
\* a task that waits for the lock gives up; a task that awaits its thread
\* leaves the with block, and the thread goes on
store_cancel(t) ==
    /\ work.tasks[t].pc \in {"wait", "thread"}
    /\ work.tasks[t].op.name = "append_message"
    /\ work.tasks[t].op.role = "assistant"
    /\ IF work.tasks[t].pc = "thread"
       THEN /\ Cardinality(work.detached) < MaxDetached
            /\ store_lock' = None
            /\ work' = [work EXCEPT !.tasks[t] = TaskIdle,
                                    !.detached = @ \cup {work.tasks[t].op}]
       ELSE /\ store_lock' = store_lock
            /\ work' = [work EXCEPT !.tasks[t] = TaskIdle]
    /\ UNCHANGED <<authVars, impl, storeVars, chatVars, attVars, sess, call>>

\* the thread of a cancelled append_message commits its INSERT
detached_commit(op) ==
    /\ op \in work.detached
    /\ messages' = AppendMessage(op.user_id, op.conversation_id, op.role, op.content)
    /\ call' = Call(call.n + 1, op.name, op.user_id, op.conversation_id, 500, "detached")
    /\ work' = [work EXCEPT !.detached = @ \ {op}]
    /\ UNCHANGED <<authVars, impl, conversations, attachments, blobs, chatVars, attVars,
                   sess, store_lock>>

\* the claims of verified tokens: every claim absent or holding a text of
\* its own, and one claim of them holding a value that does not qualify
\* everywhere (not a string, empty, whitespace) or a padded text
PlainClaims == [ClaimNames -> {None}] \cup
               { [k \in ClaimNames |-> IF k \in present THEN k ELSE None] :
                    present \in SUBSET ClaimNames }
OddValues(k) == {NotAString, "", " ", Padded(k)}
VerifiedClaims ==
    PlainClaims \cup
    { [c EXCEPT ![k] = v] : c \in PlainClaims, k \in ClaimNames, v \in UNION { OddValues(n) : n \in ClaimNames } }

\* get_user_identity after _verify_jwt returned  claims :
\* "user_id = _best_effort_user_from_claims(claims) or 'unknown'"
identity_from_claims(r, claims) ==
    /\ auth[r].pc = "idle"
    /\ LET user == _best_effort_user_from_claims(claims)
           q == [AuthIdle EXCEPT !.token = Token("k1", "issA", "aud1", "k1")] IN
       auth' = [auth EXCEPT ![r] =
                  Returned(q, Identity(IF user = None \/ user = "" THEN "unknown" ELSE user,
                                       "jwt-verified", q.token))]
    /\ call' = Call(1, "claims", None, None, 0, claims)
    /\ UNCHANGED <<settings, clock, ticks, discovery_cache, jwks_cache, lastFillT,
                   maxFetchT, cache_lock>>
    /\ UNCHANGED <<impl, storeVars, chatVars, attVars, sess, lockVars>>

(***************************************************************************)
(* A request from the dependency get_user_identity to its handler.  Every  *)
(* route but /health declares Depends(get_user_identity): the handler runs *)
(* with the identity the dependency returned, and an AuthError leaves the  *)
(* dependency for the error boundary of main.py.                           *)
(***************************************************************************)
\* the UserIdentity a handler receives
CallerOf(q) == [user_id |-> q.identity.user_id, groups |-> {}]

Endpoints == {"chat", "upload"}

\* the dependency of the request of slot r returned an identity; the slot
\* stays so while the handler runs (the model does not count the handlers
\* a slot enters, which adds behaviours and removes none)
Authenticated(r) == auth[r].pc = "done" /\ auth[r].outcome = "identity"

\* error_boundary: except AuthError -> json_error(401, ...)
error_boundary(r, op) ==
    /\ auth[r].pc = "done"
    /\ auth[r].outcome = "AuthError"
    /\ resp' = Resp(op, NoIdent, None, 401, NoAtt)
    /\ auth' = [auth EXCEPT ![r] = AuthIdle]
    /\ UNCHANGED <<settings, clock, ticks, discovery_cache, jwks_cache, lastFillT,
                   maxFetchT>>
    /\ UNCHANGED <<impl, storeVars, chatVars, del, usedAttIds, histVars, cache_lock>>

\* chat_handler entered whatever the dependency did
chat_handler_mut(r, req, fresh) ==
    /\ auth[r].pc = "done"
    /\ ChatStart(CallerOf(auth[r]), req, fresh)

\* POST /chat with the identity of the request of slot r
chat_handler(r, req, fresh) ==
    /\ Authenticated(r)
    /\ ChatStart(CallerOf(auth[r]), req, fresh)

\* POST /upload with the identity of the request of slot r
upload_handler(r, id) ==
    /\ Authenticated(r)
    /\ upload_user(CallerOf(auth[r]), id, NoCaption)

\* the handler's response has been sent
handler_returns(r) ==
    /\ Authenticated(r)
    /\ AuthFinish(r)

(***************************************************************************)
(* Specifications.                                                         *)
(***************************************************************************)
vars == <<impl, conversations, messages, attachments, blobs, chat, del, resp,
          usedAttIds, settings, clock, ticks, discovery_cache, jwks_cache, auth,
          lastFillT, maxFetchT, cache_lock, sess, call, store_lock, work>>

\* conversation tables earlier /chat requests can have left behind
InitialConversations ==
    { {}, {ConvRow("c1", "alice", 0)} }

\* the two messages of an earlier /chat request of alice on "c1"
EarlierMessages ==
    << MsgRow("alice", "c1", "user", <<"h", "i">>, 0),
       MsgRow("alice", "c1", "assistant", <<"x">>, 0) >>

\* the messages tables that can go with a conversations table.  With the
\* row of "c1": the messages of the request that created it.  Without it:
\* nothing, or the messages alice's request stored under "c1" while another
\* user owned that id (_get_or_create returned it without inserting a row,
\* _append inserted all the same) and that this owner's delete_conversation
\* left behind.
InitialMessages(convs) ==
    IF convs = {} THEN { <<>>, EarlierMessages } ELSE { EarlierMessages }

\* attachment tables earlier uploads can have left behind
InitialAttachments ==
    { {AttRow("a1", "user", "alice", NoCaption, 0), AttRow("a2", "system", None, Cap, 0)},
      {AttRow("a1", "user", "bob", Cap, 0)} }

InitRequests ==
    /\ del = [d \in DelSlots |-> DelIdle]
    /\ resp = NoResp
    /\ chat = ChatIdle
    /\ auth = [r \in AuthSlots |-> AuthIdle]
    /\ sess = [s \in SessSlots |-> SessIdle]
    /\ call = NoCall
    /\ store_lock = None
    /\ work = NoWork

\* the caches are empty when the process starts
InitCaches ==
    /\ clock = 0
    /\ ticks = 0
    /\ discovery_cache = EmptyCache
    /\ jwks_cache = EmptyCache
    /\ lastFillT = [k \in CacheKeys |-> -1]
    /\ maxFetchT = [k \in CacheKeys |-> -1]
    /\ cache_lock = None

\* settings.py defaults for the oauth2_* settings
DefaultSettings ==
    [oauth2_trust_headers |-> TRUE, oauth2_jwks_url |-> None,
     oauth2_issuer |-> None, oauth2_audience |-> "aud1"]

\* the oauth2_* settings a deployment can have; the legacy packaging reads
\* only the issuer and the audience
SettingsOf(i) ==
    IF i = "celine"
    THEN [oauth2_trust_headers : BOOLEAN, oauth2_jwks_url : {None, StaticJwksUrl},
          oauth2_issuer : {None, "issA"}, oauth2_audience : {None, "aud1"}]
    ELSE [oauth2_trust_headers : {TRUE}, oauth2_jwks_url : {None},
          oauth2_issuer : {None, "issA"}, oauth2_audience : {None, "aud1"}]

InitNoAuth ==
    /\ settings = DefaultSettings
    /\ InitCaches

\* one /chat request, against the store earlier requests left behind
InitChat ==
    /\ impl \in Impls
    /\ conversations \in InitialConversations
    /\ messages \in InitialMessages(conversations)
    /\ attachments \in IF impl = "celine" THEN InitialAttachments ELSE {{}}
    /\ blobs = { a.path : a \in attachments }
    /\ usedAttIds = { a.id : a \in attachments }
    /\ InitRequests
    /\ InitNoAuth

NextChat ==
    \/ \E user \in Idents, req \in ChatReqs, fresh \in FreshConvIds :
          ChatStart(user, req, fresh)
    \/ \E ok \in BOOLEAN : ChatAppendUser(ok)
    \/ ChatLoadAttachment
    \/ ChatLoadDone
    \/ \E nodes \in NodeLists : ChatRetrieve(nodes)
    \/ ChatRetrieveFails
    \/ GenMeta
    \/ GenSources
    \/ \E tok \in Fragments : GenToken(tok)
    \/ GenEnd
    \/ GenRaise
    \/ \E ok \in BOOLEAN : GenAppendAssistant(ok)
    \/ GenDone
    \/ \E inserted \in BOOLEAN : ChatCancel(inserted)

SpecChat == InitChat /\ [][NextChat]_vars

\* the attachment endpoints, two DELETE requests at a time
InitAttach ==
    /\ impl = "celine"
    /\ conversations = {}
    /\ messages = <<>>
    /\ attachments = {}
    /\ blobs = {}
    /\ usedAttIds = {}
    /\ InitRequests
    /\ InitNoAuth

NextAttach ==
    \/ \E user \in Idents, id \in AttIdPool : upload_user(user, id, NoCaption)
    \/ \E user \in Idents, id \in AttIdPool : upload_system(user, id, NoCaption)
    \/ \E user \in Idents, id \in AttIdPool : get_attachment_raw(user, id)
    \/ \E d \in DelSlots, user \in Idents, id \in AttIdPool :
          delete_attachment_check(d, user, id)
    \/ \E d \in DelSlots : delete_attachment_row(d)
    \/ \E d \in DelSlots, ok \in BOOLEAN : delete_attachment_blob(d, ok)

SpecAttach == InitAttach /\ [][NextAttach]_vars

\* uploads and listings as the seconds pass
NextList ==
    \/ \E user \in Idents, id \in AttIdPool : upload_user(user, id, NoCaption)
    \/ \E user \in Idents, id \in AttIdPool : upload_system(user, id, NoCaption)
    \/ \E user \in Idents, limit \in AttLimits :
          \E rows \in NewestFirst(VisibleTo(user.user_id)) :
             list_attachments_for_user(user.user_id, limit, rows)
    \/ Tick(1)

SpecList == InitAttach /\ [][NextList]_vars

\* reading and using attachments: GET /attachments/{id}/raw and the part
\* of /chat that resolves attachment_ids, against the store earlier
\* requests left behind
NextRead ==
    \/ \E user \in Idents, req \in ChatReqs, fresh \in FreshConvIds :
          ChatStart(user, req, fresh)
    \/ \E ok \in BOOLEAN : ChatAppendUser(ok)
    \/ ChatLoadAttachment
    \/ ChatLoadDone
    \/ \E user \in Idents, id \in AttIdPool : get_attachment_raw(user, id)

SpecRead == InitChat /\ [][NextRead]_vars

\* no store, no /chat and no attachment request
InitNoStore ==
    /\ conversations = {}
    /\ messages = <<>>
    /\ attachments = {}
    /\ blobs = {}
    /\ usedAttIds = {}
    /\ InitRequests

\* identity resolution, one request after the other, for every token,
\* every combination of trusted headers and every deployment
InitAuth ==
    /\ impl \in Impls
    /\ settings \in SettingsOf(impl)
    /\ InitCaches
    /\ InitNoStore

NextAuth ==
    \/ \E token \in Tokens \cup {NoToken}, headers \in Headers :
          get_user_identity("r1", token, headers)
    \/ \E discovery \in AllDiscoveryDocs : DiscoveryFetched("r1", discovery)
    \/ \E keyset \in KeySets : JwksFetched("r1", keyset)
    \/ FetchFails("r1")
    \/ AuthFinish("r1")

SpecAuth == InitAuth /\ [][NextAuth]_vars

\* key-set resolution of requests that overlap, while time passes: the
\* requests carry one well-formed token, so that they look up the same keys
CacheTokens == { Token("k1", "issA", "aud1", "k1") }

InitCache ==
    /\ impl = "celine"
    /\ settings \in { st \in SettingsOf(impl) :
                        st.oauth2_trust_headers /\ st.oauth2_audience = "aud1" }
    /\ InitCaches
    /\ InitNoStore

NextCache ==
    \/ \E r \in AuthSlots, token \in CacheTokens :
          get_user_identity(r, token, NoHeaders)
    \/ \E r \in AuthSlots, discovery \in AllDiscoveryDocs :
          DiscoveryFetched(r, discovery)
    \/ \E r \in AuthSlots, keyset \in KeySets : JwksFetched(r, keyset)
    \/ \E r \in AuthSlots : FetchFails(r)
    \/ \E r \in AuthSlots : AuthFinish(r)
    \/ \E d \in TickSteps : Tick(d)

SpecCache == InitCache /\ [][NextCache]_vars

\* lookups of the two caches that overlap, with the lock as an object; a
\* waiter gets the lock when it is free (asyncio.Lock wakes waiters in
\* order), and a with block runs to its end; nothing is assumed of the
\* network
\* the key set each URL serves while the lookups run
ServedAt(url) == IF url = "jwksA" THEN [keys |-> {"k1"}] ELSE [keys |-> {"k1", "k2"}]

InitLock ==
    /\ impl = "celine"
    /\ InitNoAuth
    /\ InitNoStore

NextLock ==
    \/ \E r \in AuthSlots, key \in LockKeys : cache_get(r, key)
    \/ \E r \in AuthSlots : lock_acquire(r)
    \/ \E r \in AuthSlots : cache_check(r)
    \/ \E r \in AuthSlots : http_get_json(r, ServedAt(auth[r].key))
    \/ \E r \in AuthSlots : cache_fill(r)
    \/ \E r \in AuthSlots : FetchFails(r)
    \/ \E r \in AuthSlots : AuthFinish(r)
    \/ Tick(1)

SpecLock ==
    /\ InitLock
    /\ [][NextLock]_vars
    /\ \A r \in AuthSlots :
          SF_vars(lock_acquire(r)) /\ WF_vars(cache_check(r)) /\ WF_vars(cache_fill(r))

\* the user id of verified claims, for every set of claims
InitClaims ==
    /\ impl \in Impls
    /\ InitNoStore
    /\ InitNoAuth

NextClaims ==
    \E claims \in VerifiedClaims : identity_from_claims("r1", claims)

SpecClaims == InitClaims /\ [][NextClaims]_vars

\* /chat up to the sources event, with the captions earlier uploads can
\* have stored
ContextReqs ==
    { req \in ChatReqs :
        req.include_citations /\ req.conversation_id = None /\ req.top_k = DefaultTopK }

InitContext ==
    /\ impl \in Impls
    /\ conversations = {}
    /\ messages = <<>>
    /\ attachments \in
          IF impl = "celine"
          THEN { {AttRow("a1", "user", "alice", c1, 0), AttRow("a2", "system", None, c2, 0)} :
                    c1, c2 \in Captions }
          ELSE {{}}
    /\ blobs = { a.path : a \in attachments }
    /\ usedAttIds = { a.id : a \in attachments }
    /\ InitRequests
    /\ InitNoAuth

NextContext ==
    \/ \E user \in Idents, req \in ContextReqs : ChatStart(user, req, "g1")
    \/ ChatAppendUser(TRUE)
    \/ ChatLoadAttachment
    \/ ChatLoadDone
    \/ \E nodes \in NodeLists : ChatRetrieve(nodes)
    \/ GenMeta
    \/ GenSources

SpecContext == InitContext /\ [][NextContext]_vars

\* /chat up to the retrieval call, for every top_k
InitTopK ==
    /\ impl \in Impls
    /\ InitNoStore
    /\ InitNoAuth

NextTopK ==
    \/ \E user \in Idents, req \in TopKReqs, fresh \in FreshConvIds :
          ChatStart(user, req, fresh)
    \/ \E user \in Idents, req \in TopKReqs : ChatInvalid(user, req)
    \/ \E ok \in BOOLEAN : ChatAppendUser(ok)
    \/ ChatLoadDone
    \/ \E nodes \in NodeLists : ChatRetrieve(nodes)
    \/ ChatRetrieveFails

SpecTopK == InitTopK /\ [][NextTopK]_vars

\* requests with and without a usable identity, and the work their
\* handlers do
GateTokens ==
    { NoToken, Token("k1", "issA", "aud1", "k1"), Token("k1", "issA", "aud1", "forged") }

GateReqs == { req \in TopKReqs : req.top_k = DefaultTopK }

GateHeaders == { NoHeaders, [user |-> "dave", email |-> None] }

InitGate ==
    /\ impl \in Impls
    /\ settings \in { st \in SettingsOf(impl) :
                        st.oauth2_jwks_url = None /\ st.oauth2_issuer = None
                        /\ st.oauth2_audience = "aud1" }
    /\ InitCaches
    /\ InitNoStore

\* one request is resolved at a time; the work of an earlier request goes
\* on meanwhile
GateSlots == {"r1"}

NextGate ==
    \/ \E r \in GateSlots, token \in GateTokens, headers \in GateHeaders :
          get_user_identity(r, token, headers)
    \/ \E r \in GateSlots, discovery \in AllDiscoveryDocs : DiscoveryFetched(r, discovery)
    \/ \E r \in GateSlots : JwksFetched(r, [keys |-> {"k1"}])
    \/ \E r \in GateSlots : FetchFails(r)
    \/ \E r \in GateSlots, op \in Endpoints : error_boundary(r, op)
    \/ \E r \in GateSlots, req \in GateReqs, fresh \in FreshConvIds :
          chat_handler(r, req, fresh)
    \/ \E r \in GateSlots : upload_handler(r, "a1")
    \/ \E r \in GateSlots : handler_returns(r)
    \/ ChatAppendUser(TRUE)
    \/ ChatLoadDone
    \/ \E nodes \in NodeLists : ChatRetrieve(nodes)
    \/ GenMeta
    \/ GenSources
    \/ \E tok \in Fragments : GenToken(tok)

SpecGate == InitGate /\ [][NextGate]_vars

\* the conversation store: two /chat requests at a time, reads and
\* deletes, while time passes
\* the store after one /chat request of alice, which made up the id "c1"
InitStore ==
    /\ impl = "celine"
    /\ conversations = {ConvRow("c1", "alice", 0)}
    /\ messages = EarlierMessages
    /\ attachments = {}
    /\ blobs = {}
    /\ usedAttIds = {}
    /\ InitRequests
    /\ InitNoAuth

NextStore ==
    \/ \E s \in SessSlots, u \in Users, cid \in RequestConvIds, fresh \in FreshConvIds :
          get_or_create_conversation(s, u, cid, fresh)
    \/ \E s \in SessSlots : append_message(s, MsgText(call.n + 1))
    \/ \E s \in SessSlots : session_end(s)
    \/ \E u \in Users, cid \in StoredConvIds, limit \in Limits : list_messages(u, cid, limit)
    \/ \E u \in Users, cid \in StoredConvIds : delete_conversation(u, cid)
    \/ Tick(1)

SpecStore == InitStore /\ [][NextStore]_vars

\* /chat requests of two users, who may name the same conversation id, next
\* to listings and deletions by either of them
NextIso ==
    \/ \E s \in SessSlots, u \in Users, cid \in RequestConvIds, fresh \in FreshConvIds :
          get_or_create_conversation(s, u, cid, fresh)
    \/ \E s \in SessSlots : append_message(s, MsgText(call.n + 1))
    \/ \E s \in SessSlots : session_end(s)
    \/ \E u \in Users, cid \in StoredConvIds : list_messages(u, cid, 500)
    \/ \E u \in Users : \E rows \in LatestFirst(u) : list_conversations(u, 200, 0, rows)
    \/ \E u \in Users, cid \in StoredConvIds : delete_conversation(u, cid)

SpecIso == InitStore /\ [][NextIso]_vars

\* GET /conversations/{id}/messages next to /chat requests and deletions,
\* for a caller with few conversations and for one with more than a page
\* of them: "c1" with its two messages is the oldest, every other
\* conversation was created a second later
OtherConvIds == { "h" \o ToString(i) : i \in 1..ScanLimit }

ManyConversations ==
    {ConvRow("c1", "alice", 0)} \cup { ConvRow(cid, "alice", 1) : cid \in OtherConvIds }

MessageLimits == {0, 200}

InitScan ==
    /\ impl \in Impls
    /\ conversations \in { {ConvRow("c1", "alice", 0)}, ManyConversations }
    /\ messages = EarlierMessages
    /\ attachments = {}
    /\ blobs = {}
    /\ usedAttIds = {}
    /\ InitRequests
    /\ settings = DefaultSettings
    /\ clock = 1
    /\ ticks = 0
    /\ discovery_cache = EmptyCache
    /\ jwks_cache = EmptyCache
    /\ lastFillT = [k \in CacheKeys |-> -1]
    /\ maxFetchT = [k \in CacheKeys |-> -1]
    /\ cache_lock = None

NextScan ==
    \/ \E u \in Users, cid \in RequestConvIds, fresh \in FreshConvIds :
          get_or_create_conversation("s1", u, cid, fresh)
    \/ append_message("s1", MsgText(call.n + 1))
    \/ session_end("s1")
    \/ \E u \in Users, cid \in StoredConvIds, found \in BOOLEAN :
          conversation_scan("s2", u, cid, found)
    \/ \E limit \in MessageLimits : conversation_messages("s2", limit)
    \/ \E u \in Users, cid \in StoredConvIds : delete_conversation(u, cid)

SpecScan == InitScan /\ [][NextScan]_vars

\* /chat requests that store messages of different lengths, and listings
\* of the conversations, while time passes
LongText == [i \in 1..(SnippetLen + 1) |-> "w"]

NextConvs ==
    \/ \E s \in SessSlots, u \in Users, cid \in RequestConvIds, fresh \in FreshConvIds :
          get_or_create_conversation(s, u, cid, fresh)
    \/ \E s \in SessSlots, content \in {MsgText(call.n + 1), LongText} :
          append_message(s, content)
    \/ \E s \in SessSlots : session_end(s)
    \/ \E u \in Users, limit \in ConvLimits, offset \in ConvOffsets :
          \E rows \in LatestFirst(u) : list_conversations(u, limit, offset, rows)
    \/ Tick(1)

SpecConvs == InitStore /\ [][NextConvs]_vars

\* the calls of two requests of alice on her conversation, with the store
\* lock as an object
\* requests of alice and of bob that name the same conversation id: one
\* no conversation has yet, or the id of alice's conversation
CreateOps ==
    { StoreOp("get_or_create", u, cid, None, None) : u \in Users, cid \in {"x1", "c1"} }

NextCreate ==
    \/ \E t \in StoreTasks, op \in CreateOps : store_call(t, op)
    \/ \E t \in StoreTasks : store_enter(t)
    \/ \E t \in StoreTasks : store_select(t)
    \/ \E t \in StoreTasks : store_return(t)
    \/ Tick(1)

SpecCreate == InitStore /\ [][NextCreate]_vars

NextExcl ==
    \/ \E t \in StoreTasks, op \in LockedOps(call.n + Pending + 1) : store_call(t, op)
    \/ \E t \in StoreTasks : store_enter(t)
    \/ \E t \in StoreTasks : store_select(t)
    \/ \E t \in StoreTasks : store_return(t)
    \/ \E t \in StoreTasks : store_cancel(t)
    \/ \E op \in work.detached : detached_commit(op)

SpecExcl == InitStore /\ [][NextExcl]_vars

(***************************************************************************)
(* Properties of the /chat event stream.                                   *)
(***************************************************************************)
TypesOf(events) == [i \in 1..Len(events) |-> events[i].type]

CountType(events, t) == Cardinality({ i \in 1..Len(events) : events[i].type = t })

Terminals(events) == { i \in 1..Len(events) : events[i].type \in TerminalTypes }

\* the response started streaming and ended without the client cancelling it
StreamEnded == chat.pc = "closed" /\ ~chat.cancelled

\* C1: every /chat event stream that has started and is not cancelled by
\* the client ends with exactly one terminal event, which is its last
\* event: done when generation completed, error when generation raised;
\* no stream holds two terminal events or a terminal event that is not last.
C1_ExactlyOneTerminal ==
    /\ Cardinality(Terminals(chat.events)) <= 1
    /\ Terminals(chat.events) \subseteq {Len(chat.events)}
    /\ StreamEnded =>
          /\ Terminals(chat.events) = {Len(chat.events)}
          /\ chat.events # <<>>
          /\ chat.generation = "completed" =>
                chat.events[Len(chat.events)].type = "done"
          /\ chat.generation = "raised" =>
                chat.events[Len(chat.events)].type = "error"

\* C2: exactly one meta event is emitted, it is the first event of the
\* stream, and it carries the id get_or_create_conversation returned: the
\* client-supplied id when one was supplied, a freshly generated id
\* otherwise.
C2_MetaFirst ==
    /\ \A i \in 1..Len(chat.events) : chat.events[i].type = "meta" <=> i = 1
    /\ chat.pc \in (StreamPcs \ {"meta"}) \/ StreamEnded => chat.events # <<>>
    /\ chat.events # <<>> =>
          /\ chat.events[1].data = chat.conv
          /\ \E c \in conversations : c.conversation_id = chat.events[1].data
          /\ IF Truthy(chat.req.conversation_id)
             THEN chat.events[1].data = chat.req.conversation_id
             ELSE chat.events[1].data \in FreshConvIds

\* a stream with tokens whose meta event carries a generated id, and one
\* whose meta event carries the client's id
C2_Witness ==
    /\ StreamEnded
    /\ Len(chat.events) >= 4
    /\ chat.req.conversation_id = ""
    /\ chat.events[1].data \in FreshConvIds

\* the caller may not use this attachment
Unauthorized(att, user) ==
    /\ att.id # None
    /\ att.scope = "user"
    /\ att.owner_user_id # user.user_id
    /\ admin_group \notin user.groups

\* positions of attachment_ids that resolve to an attachment the caller
\* may not use
OffendingPositions ==
    { i \in 1..Len(chat.req.attachment_ids) :
        \E a \in attachments :
            a.id = chat.req.attachment_ids[i] /\ Unauthorized(a, chat.user) }

\* C3: when a referenced attachment id resolves to an attachment the caller
\* is not authorized to use, wherever it stands in attachment_ids, the
\* request fails with 403 before any event is emitted and before retrieval
\* or generation is called.
C3_ForbiddenBeforeStreaming ==
    /\ impl = "celine" /\ OffendingPositions # {} =>
          /\ chat.pc \in {"append_user", "load", "rejected"}
          /\ chat.pc = "load" => \A i \in OffendingPositions : chat.idx <= i
          /\ chat.pc = "rejected" => chat.status = 403
          /\ chat.events = <<>>
          /\ ~chat.retrieved
          /\ chat.generation = "none"
    /\ chat.status = 403 =>
          chat.events = <<>> /\ ~chat.retrieved /\ chat.generation = "none"

\* a request rejected because of its second attachment id, the first one
\* having been accepted
C3_Witness ==
    /\ chat.pc = "rejected"
    /\ chat.status = 403
    /\ Len(chat.attached) = 1
    /\ OffendingPositions = {2}

\* the data of the token events, in stream order
TokenData(events) ==
    LET toks == SelectSeq(events, LAMBDA e : e.type = "token")
    IN [i \in 1..Len(toks) |-> toks[i].data]

\* the stream of a request whose generation completed: meta, sources when
\* citations were requested, one token per fragment, done
CompleteStream(c) ==
    <<_sse("meta", c.conv)>>
    \o (IF c.req.include_citations THEN <<_sse("sources", c.sources)>> ELSE <<>>)
    \o [i \in 1..Len(c.parts) |-> _sse("token", c.parts[i])]
    \o <<_sse("done", None)>>

\* the insert of the user message was attempted
PastUserAppend == chat.pc \notin {"idle", "append_user"}

\* C11: when the insert of the user message fails the request goes on as
\* when it succeeds: the step after the insert is the same, no error status
\* or error event comes from it, and when generation completes the stream is
\* meta, (sources,) the tokens and done.
C11_UserAppendBestEffort ==
    /\ [](PastUserAppend /\ ~chat.user_saved =>
            /\ chat.status = 500 => chat.retrieved
            /\ chat.status = 403 => impl = "celine" /\ ~chat.retrieved
            /\ CountType(chat.events, "error") > 0 => chat.generation = "raised"
            /\ StreamEnded /\ chat.generation = "completed" =>
                  chat.events = CompleteStream(chat))
    /\ [][chat.pc = "append_user" =>
            [chat' EXCEPT !.user_saved = TRUE] =
               [chat EXCEPT !.pc = IF impl = "celine" THEN "load" ELSE "retrieve",
                            !.user_saved = TRUE]]_vars

\* the user message was lost and the answer was streamed to its end
C11_Witness ==
    /\ StreamEnded
    /\ ~chat.user_saved
    /\ chat.assistant_saved
    /\ Len(chat.parts) = 2
    /\ chat.events[Len(chat.events)].type = "done"

\* C12: when the insert of the assistant message fails after generation
\* completed, the stream still ends with done and not error, and the events
\* emitted before are unchanged.
C12_AssistantAppendBestEffort ==
    /\ [](StreamEnded /\ chat.generation = "completed" /\ ~chat.assistant_saved =>
            /\ chat.events = CompleteStream(chat)
            /\ CountType(chat.events, "error") = 0)
    /\ [][chat.pc = "append_assistant" /\ ~chat'.cancelled =>
            /\ chat'.events = chat.events
            /\ chat'.pc = "done"]_vars

\* the assistant message was lost after two fragments
C12_Witness ==
    /\ StreamEnded
    /\ chat.generation = "completed"
    /\ chat.user_saved
    /\ ~chat.assistant_saved
    /\ Len(chat.parts) = 2
    /\ chat.events[Len(chat.events)].type = "done"

\* the last row of the messages table is the assistant message of the request
AssistantRowIs(content) ==
    /\ messages # <<>>
    /\ LET m == messages[Len(messages)] IN
       /\ m.role = "assistant"
       /\ m.user_id = chat.user.user_id
       /\ m.conversation_id = chat.conv
       /\ m.content = content

\* C13: each fragment of the generation collaborator becomes one token
\* event, in production order, and the persisted assistant message is the
\* concatenation, in order, of the fragments emitted as token events.
C13_TokensInOrder ==
    /\ [](/\ TokenData(chat.events) = chat.parts
          /\ chat.assistant_saved => AssistantRowIs(Join(TokenData(chat.events))))
    /\ [][chat'.parts # chat.parts =>
            \E tok \in Fragments :
               /\ chat'.parts = Append(chat.parts, tok)
               /\ chat'.events = Append(chat.events, _sse("token", tok))]_vars

\* two different fragments were streamed and persisted
C13_Witness ==
    /\ StreamEnded
    /\ chat.assistant_saved
    /\ Len(chat.parts) = 2
    /\ chat.parts[1] # chat.parts[2]
    /\ chat.events[Len(chat.events)].type = "done"

\* the stream got past the point where gen() yields the sources
PastSources ==
    \E i \in 1..Len(chat.events) : chat.events[i].type \in {"token", "done", "error"}

\* C14: a sources event is emitted if and only if citations were requested;
\* there is at most one, it is the second event, right after meta and before
\* every token, and it carries the context set handed to generation, in the
\* same order (the attachment block first).
C14_SourcesEvent ==
    /\ CountType(chat.events, "sources") <= 1
    /\ ~chat.req.include_citations => CountType(chat.events, "sources") = 0
    /\ chat.req.include_citations /\ (PastSources \/ chat.pc = "generate") =>
          CountType(chat.events, "sources") = 1
    /\ \A i \in 1..Len(chat.events) :
          chat.events[i].type = "sources" =>
             /\ i = 2
             /\ chat.events[1].type = "meta"
             /\ chat.events[i].data = chat.sources
             /\ \E nodes \in NodeLists :
                   chat.events[i].data = ContextSet(chat.attached, nodes)

\* citations with an attachment block and two passages, then tokens
C14_Witness ==
    /\ StreamEnded
    /\ chat.req.include_citations
    /\ chat.attached # <<>>
    /\ Len(chat.events) >= 4
    /\ chat.events[2].type = "sources"
    /\ Len(chat.events[2].data) = 3
    /\ chat.events[3].type = "token"

\* C15: once the client has disconnected no further fragment is pulled and
\* no further event is emitted: the cancellation itself and every step after
\* it leave the events and the accumulated fragments as they were.
C15_CancelStops ==
    [][chat'.cancelled =>
          /\ chat'.events = chat.events
          /\ chat'.parts = chat.parts
          /\ chat'.pc = "closed"]_vars

\* a disconnect in the middle of generation
C15_Witness ==
    /\ chat.cancelled
    /\ chat.pc = "closed"
    /\ chat.generation = "running"
    /\ chat.events[Len(chat.events)].type = "token"
    /\ ~chat.assistant_saved

\* C20: after a /chat request on a new conversation whose stream ended with
\* done and whose two inserts succeeded, the caller owns the conversation
\* row and list_messages returns exactly two messages: the user message with
\* the text of the request, then the assistant message, and no message of
\* another request.
C20_EndToEndDurability ==
    /\ StreamEnded
    /\ chat.events[Len(chat.events)].type = "done"
    /\ chat.is_new
    /\ chat.user_saved
    /\ chat.assistant_saved
    => /\ Owns(chat.user.user_id, chat.conv)
       /\ \A limit \in {2, 500} :
             LET got == ListMessages(chat.user.user_id, chat.conv, limit) IN
             /\ Len(got) = 2
             /\ got[1].role = "user"
             /\ got[1].content = chat.req.message
             /\ got[2].role = "assistant"
             /\ got[2].content = Join(chat.parts)

\* C23: the retrieval collaborator is called with a top_k in 1..20 whatever
\* top_k the request carries, and the context set holds at most that many
\* retrieved passages.
C23_TopKClamped ==
    chat.retrieved =>
        /\ chat.retrieve_top_k \in 1..20
        /\ Len(chat.sources) <= chat.retrieve_top_k

(***************************************************************************)
(* Properties of the conversation store.                                   *)
(***************************************************************************)
\* this step is a call of get_or_create_conversation (by slot s)
GetOrCreateStep(s) == sess[s].pc = "idle" /\ sess'[s].pc = "user"

\* this step is a call of the store method op
CallStep(op) == call'.n = call.n + 1 /\ call'.op = op

\* this step repeats the arguments of the call before it
SameArguments ==
    /\ call'.user_id = call.user_id
    /\ call'.conversation_id = call.conversation_id

\* C16: two calls get_or_create(user, None) in a row return two distinct ids
\* and create two rows; get_or_create(user, X) twice in a row returns X both
\* times, and the second call adds no row and leaves the existing rows
\* (owner, created_at) as they are.
C16_IdempotentCreate ==
    [][\A s \in SessSlots :
          GetOrCreateStep(s) /\ call.op = "get_or_create" /\ SameArguments =>
             IF Truthy(call'.conversation_id)
             THEN /\ call.result = call'.conversation_id
                  /\ call'.result = call'.conversation_id
                  /\ conversations' = conversations
             ELSE /\ call'.result # call.result
                  /\ Owns(call.user_id, call.result)
                  /\ call'.result \notin ConvIdsInUse
                  /\ conversations' =
                        conversations \cup {ConvRow(call'.result, call'.user_id, clock)}]_vars

\* the same user asked for "c1" twice, the second time a second later
C16_Witness ==
    /\ call.op = "get_or_create"
    /\ call.conversation_id = "c1"
    /\ sess["s1"] = [pc |-> "user", user_id |-> "alice", conv |-> "c1"]
    /\ sess["s2"] = sess["s1"]
    /\ conversations = {ConvRow("c1", "alice", 0)}
    /\ clock = 1

\* C17: after get_or_create(user, X) has returned X, a conversation row
\* with id X owned by user exists, also when X was the id of a conversation
\* of another owner.
C17_CreateOnMiss ==
    call.op = "get_or_create" => Owns(call.user_id, call.result)

\* the rows in insertion order, as list_messages returns them
InInsertionOrder(user_id, cid) ==
    LET rows == MessagesOf(user_id, cid) IN [i \in 1..Len(rows) |-> Listed(rows[i])]

WithoutConversation(user_id, cid) ==
    { c \in conversations : ~(c.conversation_id = cid /\ c.user_id = user_id) }

WithoutMessages(user_id, cid) ==
    SelectSeq(messages, LAMBDA m : ~(m.conversation_id = cid /\ m.user_id = user_id))

\* C19: delete_conversation(user, c) returns false and changes nothing when
\* user owns no conversation c; otherwise it returns true and removes the
\* row and all messages of (user, c) in one step, and list_messages(user, c)
\* right after it returns the empty list.
C19_DeleteConversation ==
    /\ [](call.op = "delete_conversation" /\ call.result = TRUE =>
            /\ ~Owns(call.user_id, call.conversation_id)
            /\ MessagesOf(call.user_id, call.conversation_id) = <<>>)
    /\ [][/\ CallStep("delete_conversation") =>
               IF Owns(call'.user_id, call'.conversation_id)
               THEN /\ call'.result = TRUE
                    /\ conversations' =
                          WithoutConversation(call'.user_id, call'.conversation_id)
                    /\ messages' = WithoutMessages(call'.user_id, call'.conversation_id)
               ELSE /\ call'.result = FALSE
                    /\ conversations' = conversations
                    /\ messages' = messages
          /\ ( /\ CallStep("list_messages")
               /\ call.op = "delete_conversation"
               /\ call.result = TRUE
               /\ SameArguments ) => call'.result = <<>>]_vars

\* a conversation with two messages was deleted next to another that stays
C19_Witness ==
    /\ call.op = "delete_conversation"
    /\ call.result = TRUE
    /\ Len(messages) = 2
    /\ conversations # {}

(***************************************************************************)
(* Properties of attachment authorization.                                 *)
(***************************************************************************)
\* the rule for reading and using: system scope, or user scope owned by the
\* caller, or user scope and the caller is admin
MayRead(att, user) ==
    \/ att.scope = "system"
    \/ att.scope = "user" /\ att.owner_user_id = user.user_id
    \/ att.scope = "user" /\ admin_group \in user.groups

Range(seq) == { seq[i] : i \in 1..Len(seq) }

\* C4: reading an attachment or using it in /chat succeeds when it is
\* system-scope, or user-scope and owned by the caller or the caller is
\* admin; a user-scope attachment of A is refused to a non-admin B with 403
\* and neither its content nor its metadata reaches B.
C4_ReadUseAuthorization ==
    /\ resp.op = "raw" =>
          \A a \in attachments : a.id = resp.id =>
              /\ MayRead(a, resp.user) => resp.status = 200 /\ resp.att = a
              /\ Unauthorized(a, resp.user) => resp.status = 403 /\ resp.att = NoAtt
    /\ \A a \in Range(chat.attached) : a \in attachments /\ MayRead(a, chat.user)
    /\ chat.pc = "retrieve" /\ impl = "celine" =>
          \A i \in 1..Len(chat.req.attachment_ids) :
              \A a \in attachments :
                  a.id = chat.req.attachment_ids[i] /\ MayRead(a, chat.user)
                      => a \in Range(chat.attached)
    /\ chat.pc = "rejected" => chat.status = 403 /\ OffendingPositions # {}

\* bob has been refused alice's attachment, and root's /chat request uses it
C4_Witness ==
    /\ resp.op = "raw"
    /\ resp.status = 403
    /\ resp.user.user_id = "bob"
    /\ chat.user.user_id = "root"
    /\ chat.pc = "retrieve"
    /\ \E a \in Range(chat.attached) : a.owner_user_id = "alice"

\* C21: every attachment row made by the upload operations has scope user
\* or system; a user-scope row has an owner, the caller of the upload; a
\* system-scope row has none; and a system-scope row is only made for an
\* admin caller.
C21_ScopeOwnerInvariant ==
    /\ [](\A a \in attachments :
            /\ a.scope \in {"user", "system"}
            /\ a.scope = "user" => a.owner_user_id # None
            /\ a.scope = "system" => a.owner_user_id = None)
    /\ [][\A a \in attachments' \ attachments :
            /\ resp'.status = 200
            /\ resp'.att = a
            /\ a.scope = "user" =>
                  resp'.op = "upload" /\ a.owner_user_id = resp'.user.user_id
            /\ a.scope = "system" =>
                  resp'.op = "admin_upload" /\ is_admin(resp'.user)]_vars

\* alice's upload is in the table next to a system upload, and bob has just
\* been refused a system upload
C21_Witness ==
    /\ \E a \in attachments : a.scope = "user" /\ a.owner_user_id = "alice"
    /\ \E a \in attachments : a.scope = "system"
    /\ resp.op = "admin_upload"
    /\ resp.status = 403
    /\ resp.user.user_id = "bob"

\* C22: list_for_user(user, limit) returns only system-scope attachments
\* and user-scope attachments owned by user, newest first, and at most
\* limit rows.
C22_ListForUser ==
    call.op = "list_attachments" =>
        /\ \A i \in DOMAIN call.result :
              LET a == call.result[i] IN
              /\ a \in attachments
              /\ a.scope = "system" \/ (a.scope = "user" /\ a.owner_user_id = call.user_id)
        /\ \A i, j \in DOMAIN call.result :
              i < j => call.result[i].created_at >= call.result[j].created_at
        /\ Len(call.result) <= call.limit

\* the rule for deleting
MayDelete(att, user) ==
    \/ att.scope = "user" /\ att.owner_user_id = user.user_id
    \/ att.scope = "user" /\ admin_group \in user.groups
    \/ att.scope = "system" /\ admin_group \in user.groups

\* C5: DELETE /attachments/{id} removes the row only for the owner or an
\* admin (user scope) or an admin (system scope); every other caller gets
\* 403 and the row and its blob stay as they are.
C5_DeleteAuthorization ==
    [][ /\ \A a \in attachments \ attachments' :
              \E d \in DelSlots :
                  /\ del[d].pc = "row" /\ del[d].id = a.id
                  /\ MayDelete(a, del[d].user)
        /\ \A path \in blobs \ blobs' :
              \E d \in DelSlots :
                  /\ del[d].pc = "blob" /\ del[d].att.path = path
                  /\ MayDelete(del[d].att, del[d].user)
        /\ \A d \in DelSlots, user \in Idents, a \in attachments :
              delete_attachment_check(d, user, a.id) =>
                  IF MayDelete(a, user)
                  THEN del'[d].pc = "row" /\ del'[d].att = a
                  ELSE /\ resp' = Resp("delete", user, a.id, 403, NoAtt)
                       /\ UNCHANGED <<attachments, blobs, del>>
      ]_vars

\* bob has been refused the deletion of a system attachment that is still
\* there, while an authorized deletion of another attachment has removed its
\* row
C5_Witness ==
    /\ resp.op = "delete"
    /\ resp.status = 403
    /\ resp.user.user_id = "bob"
    /\ \E a \in attachments : a.id = resp.id /\ a.scope = "system" /\ a.path \in blobs
    /\ \E d \in DelSlots : del[d].pc = "blob" /\ del[d].att \notin attachments

(***************************************************************************)
(* Properties of identity resolution.                                      *)
(***************************************************************************)
Resolved == auth["r1"]

\* an identity header (user or email) came with the request
HasIdentityHeader(q) == q.headers.user # None \/ q.headers.email # None

\* the rule of the fallback: a trusted-headers identity when the fallback
\* is enabled and an identity header is present, AuthError otherwise
FallbackRule(q) ==
    IF settings.oauth2_trust_headers /\ HasIdentityHeader(q)
    THEN /\ q.outcome = "identity"
         /\ q.identity.source = "trusted-headers"
         /\ q.identity.user_id \in {q.headers.user, q.headers.email} \ {None}
    ELSE q.outcome = "AuthError"

JwtVerified(q) == q.outcome = "identity" /\ q.identity.source = "jwt-verified"

\* C6: when a token is present and its verification fails, and when no
\* token is present, the resolver returns a trusted-headers identity if and
\* only if the fallback is enabled and an identity header is present, and
\* fails with AuthError otherwise; a trusted-headers identity is never
\* returned while the fallback is disabled.
C6_FallbackChain ==
    Resolved.pc = "done" /\ impl = "celine" =>
        /\ Resolved.outcome \in {"identity", "AuthError"}
        /\ ~JwtVerified(Resolved) => FallbackRule(Resolved)
        /\ ~Resolved.token.present => ~JwtVerified(Resolved)
        /\ Resolved.token.present /\ Resolved.token.kid \notin {"k1", "k2"} =>
              ~JwtVerified(Resolved)
        /\ Resolved.token.present /\ Resolved.token.signed_by = "forged" =>
              ~JwtVerified(Resolved)
        /\ Resolved.outcome = "identity" /\ Resolved.identity.source = "trusted-headers"
              => settings.oauth2_trust_headers

\* a token with an unknown kid, answered from the email header
C6_Witness ==
    /\ Resolved.pc = "done"
    /\ Resolved.token.kid = "k2"
    /\ Resolved.jwks.src = "network"
    /\ Resolved.headers.user = None
    /\ Resolved.outcome = "identity"
    /\ Resolved.identity.source = "trusted-headers"

\* the token is signed by the key its kid names and matches the configured
\* issuer and audience
ValidToken(token) ==
    /\ token.present
    /\ token.kid # None
    /\ token.signed_by = token.kid
    /\ settings.oauth2_issuer # None => token.iss = settings.oauth2_issuer
    /\ settings.oauth2_audience # None => token.aud = settings.oauth2_audience

C8_MissingKidOrIss_Original ==
    Resolved.pc = "done" /\ Resolved.token.present
      /\ (Resolved.token.kid = None \/ Resolved.token.iss = None)
        => Resolved.outcome = "AuthError"

\* the packaging has the trusted-header fallback
HasFallback == impl = "celine"

\* the key set comes from the statically configured URL
StaticKeySet == impl = "celine" /\ settings.oauth2_jwks_url # None

\* C8, amended: a token without kid, and a token without iss unless the key
\* set comes from the static URL and no issuer is configured, never yields
\* a jwt-verified identity; the request then follows the fallback rule:
\* trusted-headers identity when the fallback is enabled and an identity
\* header is present, AuthError otherwise.
C8_MissingKidOrIss ==
    Resolved.pc = "done" /\ Resolved.token.present =>
        /\ Resolved.token.kid = None => ~JwtVerified(Resolved)
        /\ Resolved.token.iss = None
             /\ (~StaticKeySet \/ settings.oauth2_issuer # None)
           => ~JwtVerified(Resolved)
        /\ ~JwtVerified(Resolved) =>
              IF HasFallback THEN FallbackRule(Resolved)
              ELSE Resolved.outcome = "AuthError"

\* a token without kid, answered from the trusted headers
C8_Witness ==
    /\ Resolved.pc = "done"
    /\ Resolved.token.present
    /\ Resolved.token.kid = None
    /\ Resolved.token.iss # None
    /\ Resolved.outcome = "identity"
    /\ Resolved.identity.source = "trusted-headers"

\* the request of slot r is answered in this step
Answered(r) == auth[r].pc = "done" /\ auth'[r].pc = "idle"

\* C24: a request whose identity resolution ended in AuthError is answered
\* with 401 and does nothing else: the step that answers it leaves the
\* conversations, messages, attachments and blobs and the /chat pipeline
\* alone, and every step that starts work (a conversation, an upload, a
\* /chat pipeline) belongs to a request whose resolution returned an
\* identity, and works for that identity.
C24_Unauthenticated401 ==
    [][/\ \A r \in GateSlots :
             Answered(r) /\ auth[r].outcome = "AuthError" =>
                 /\ resp'.status = 401
                 /\ UNCHANGED <<conversations, messages, attachments, blobs, chat>>
       /\ chat.pc = "idle" /\ chat'.pc # "idle" =>
             \E r \in GateSlots : Authenticated(r) /\ chat'.user = CallerOf(auth[r])
       /\ conversations' # conversations =>
             chat.pc = "idle" /\ chat'.pc # "idle"
       /\ messages' # messages => chat.pc \notin {"idle", "rejected"}
       /\ \A a \in attachments' \ attachments :
             \E r \in GateSlots :
                Authenticated(r) /\ a.owner_user_id = auth[r].identity.user_id
       /\ attachments \subseteq attachments'
      ]_vars

\* a request without identity has been answered 401 while the answer to an
\* earlier, authenticated request is streaming
C24_Witness ==
    /\ resp.status = 401
    /\ auth["r1"].pc = "idle"
    /\ chat.pc = "generate"
    /\ Len(chat.parts) = 1
    /\ conversations # {}
    /\ attachments # {}

(***************************************************************************)
(* Properties of the conversation listing.                                 *)
(***************************************************************************)
Min(a, b) == IF a <= b THEN a ELSE b

\* the message of (user_id, cid) that was stored last
LatestMessage(user_id, cid) ==
    LET msgs == MessagesOf(user_id, cid) IN msgs[Len(msgs)]

\* C29: list_conversations returns only conversations of the caller, each
\* at most once, ordered by latest activity (the time of the latest
\* message, or of creation when there is none), newest first; each entry
\* has the number of the caller's messages in the conversation and the
\* first 140 characters of the latest message, or null when there is none.
C29_ListConversations ==
    call.op = "list_conversations" =>
        LET items == call.result IN
        /\ \A i \in DOMAIN items : Owns(call.user_id, items[i].conversation_id)
        /\ \A i, j \in DOMAIN items :
              /\ i # j => items[i].conversation_id # items[j].conversation_id
              /\ i < j => items[i].last_message_at >= items[j].last_message_at
        /\ \A i \in DOMAIN items :
              LET msgs == MessagesOf(call.user_id, items[i].conversation_id) IN
              /\ items[i].message_count = Len(msgs)
              /\ IF msgs = <<>>
                 THEN items[i].last_snippet = NoSnippet
                 ELSE LET content == LatestMessage(call.user_id,
                                                   items[i].conversation_id).content IN
                      /\ items[i].last_message_at =
                            LatestMessage(call.user_id, items[i].conversation_id).created_at
                      /\ Len(items[i].last_snippet) <= SnippetLen
                      /\ items[i].last_snippet =
                            [k \in 1..Min(Len(content), SnippetLen) |-> content[k]]

(***************************************************************************)
(* Properties of the user id of verified claims.                           *)
(***************************************************************************)
\* the order of the claim names
SidFirst == <<"sid", "sub", "preferred_username", "name", "email", "user", "uid">>

NonEmptyString(v) == v # None /\ v # NotAString /\ v # ""

RECURSIVE FirstNonEmpty(_, _)
FirstNonEmpty(claims, order) ==
    IF order = <<>> THEN "unknown"
    ELSE IF NonEmptyString(claims[Head(order)]) THEN claims[Head(order)]
    ELSE FirstNonEmpty(claims, Tail(order))

\* C28: the user id of verified claims is the value of the first of sid,
\* sub, preferred_username, name, email, user, uid that holds a non-empty
\* string, and "unknown" when none does; resolution returns an identity
\* either way.
C28_UserIdFromClaims ==
    call.op = "claims" /\ auth["r1"].pc = "done" =>
        /\ auth["r1"].outcome = "identity"
        /\ auth["r1"].identity.user_id = FirstNonEmpty(call.result, SidFirst)

(***************************************************************************)
(* Properties of the context set.                                          *)
(***************************************************************************)
IsBlank(caption) == caption = NoCaption \/ \A i \in DOMAIN caption : caption[i] = " "

\* the context set without its attachment block
PassagesOf(sources) ==
    IF sources # <<>> /\ sources[1].source = "attached_files" THEN Tail(sources)
    ELSE sources

\* C27: the context set starts with the attached-files block if and only
\* if an authorized attachment was resolved; the block lists the resolved
\* attachments in the order of the request, each with its caption (less
\* surrounding whitespace) or, when the caption is null or blank, with the
\* no-description placeholder; the rest is the retrieved passages in the
\* order retrieval returned them, and nothing else is a block.
C27_ContextSet ==
    chat.retrieved /\ chat.status = 200 =>
        /\ chat.attached # <<>> <=>
              (chat.sources # <<>> /\ chat.sources[1].source = "attached_files")
        /\ chat.attached # <<>> =>
              /\ Len(chat.sources[1].files) = Len(chat.attached)
              /\ \A i \in DOMAIN chat.attached :
                    LET a == chat.attached[i]
                        f == chat.sources[1].files[i] IN
                    /\ f.filename = a.id
                    /\ IF IsBlank(a.caption)
                       THEN f.description = NoDescription
                       ELSE /\ f.description = Strip(a.caption)
                            /\ f.description # NoDescription
        /\ [i \in DOMAIN PassagesOf(chat.sources) |-> PassagesOf(chat.sources)[i].source]
              \in NodeLists

\* a block of a blank and a captioned attachment before two passages
C27_Witness ==
    /\ chat.pc = "generate"
    /\ Len(chat.attached) = 2
    /\ chat.attached[1].caption = <<" ">>
    /\ chat.attached[2].caption = <<" ", "c", " ">>
    /\ Len(chat.sources) = 3
    /\ chat.sources[1].files[1].description = NoDescription
    /\ chat.sources[1].files[2].description = <<"c">>
    /\ chat.sources[3].source = "p1"

(***************************************************************************)
(* Properties of HistoryStore._lock.                                       *)
(***************************************************************************)
\* C26: the methods of a HistoryStore are mutually exclusive: at no time
\* is more than one thread inside a method of the store, and a thread that
\* is inside one belongs to the task that holds the lock.
C26_MutuallyExclusive ==
    /\ Cardinality(InStore) + Cardinality(work.detached) <= 1
    /\ \A t \in InStore : store_lock = t

(***************************************************************************)
(* Properties of _cache_lock.                                              *)
(***************************************************************************)
WaitsForLock(r) == auth[r].pc \in {"lock_check", "lock_fill"}
InWithBlock(r) == auth[r].pc \in {"check", "fill"}
Fetching(r) == auth[r].pc \in {"fetch_discovery", "fetch_jwks"}

\* C25: _cache_lock is held only inside the check and the fill, never by a
\* lookup that awaits the network; a lookup that waits for the lock gets it
\* and leaves its with block whatever the fetches in flight do; the fill of
\* a fetch stores the fetched value under its key, expiring TTL after the
\* start of its lookup, and a check made while the entry is live returns
\* the stored value without a fetch.
C25_LockScope ==
    /\ [](\A r \in AuthSlots : cache_lock = r <=> InWithBlock(r))
    /\ [][\A r \in AuthSlots :
            /\ auth[r].pc = "fill" /\ auth'[r].pc = "done" =>
                  LET q == auth[r] IN
                  CacheOf(q.key)' [q.key] =
                      [expires |-> q.now + TtlOf(q.key), value |-> ResultOf(q).value]
            /\ auth[r].pc = "check" /\ auth'[r].pc # "check" =>
                  LET q == auth[r] cache == CacheOf(q.key) IN
                  IF q.key \in DOMAIN cache /\ q.now < cache[q.key].expires
                  THEN /\ auth'[r].pc = "done"
                       /\ ResultOf(auth'[r]).src = "cache"
                       /\ ResultOf(auth'[r]).value = cache[q.key].value
                  ELSE Fetching(r)']_vars
    /\ \A r \in AuthSlots : WaitsForLock(r) ~> InWithBlock(r)
    /\ \A r \in AuthSlots : InWithBlock(r) ~> ~InWithBlock(r)

\* while the fetch of one key is in flight, a lookup of another key that
\* started later has checked, fetched and filled, and a third lookup was
\* answered from that fill
C25_Witness ==
    /\ auth["r1"].pc = "fetch_jwks"
    /\ auth["r1"].key = "jwksA"
    /\ auth["r2"].pc = "done"
    /\ auth["r2"].key = "jwksB"
    /\ auth["r2"].jwks.src = "cache"
    /\ auth["r2"].now > auth["r1"].now
    /\ cache_lock = None

(***************************************************************************)
(* Properties of the discovery and key-set caches.                         *)
(***************************************************************************)
\* the request of slot r starts a fetch in this step
StartsFetch(r, pc) == auth'[r].pc = pc /\ auth[r].pc # pc

\* the request of slot r is answered from the cache in this step
DiscoveryHit(r) == auth[r].pc = "idle" /\ auth'[r].disc.src = "cache"
JwksHit(r) == auth[r].pc \in {"idle", "fetch_discovery"} /\ auth'[r].jwks.src = "cache"

\* C9 as stated: a key fetched at time T is served from the cache by every
\* lookup with now < T + TTL, so a lookup goes to the network only when the
\* key was never fetched or every fetch of it lies at least TTL back.
C9_CacheTTL_Original ==
    [][\A r \in AuthSlots :
          /\ StartsFetch(r, "fetch_discovery") =>
               LET T == maxFetchT[auth'[r].key] IN
               T < 0 \/ clock >= T + _DISCOVERY_TTL_SECONDS
          /\ StartsFetch(r, "fetch_jwks") =>
               LET T == maxFetchT[auth'[r].key] IN
               T < 0 \/ clock >= T + _JWKS_TTL_SECONDS]_vars

\* every stored entry expires TTL after the start of the lookup that
\* stored it last
EntriesStamped ==
    /\ \A k \in DOMAIN discovery_cache :
          discovery_cache[k].expires = lastFillT[k] + _DISCOVERY_TTL_SECONDS
    /\ \A k \in DOMAIN jwks_cache :
          jwks_cache[k].expires = lastFillT[k] + _JWKS_TTL_SECONDS

\* no lookup was answered with an entry that had expired
NoExpiredServed ==
    \A r \in AuthSlots :
        /\ auth[r].disc.src = "cache" => auth[r].disc.expires > auth[r].disc.now
        /\ auth[r].jwks.src = "cache" => auth[r].jwks.expires > auth[r].jwks.now

\* C9, amended: the entry of a key is the one stored by the fetch that
\* completed last, expiring TTL after the start of its lookup (T); a lookup
\* with now < T + TTL returns that entry without a fetch, a lookup goes to
\* the network only when the key has no entry or now >= T + TTL, and no
\* lookup returns an entry with expires_at <= now.
C9_CacheTTL ==
    /\ [](EntriesStamped /\ NoExpiredServed)
    /\ [][\A r \in AuthSlots :
            /\ StartsFetch(r, "fetch_discovery") =>
                 LET T == lastFillT[auth'[r].key] IN
                 T < 0 \/ clock >= T + _DISCOVERY_TTL_SECONDS
            /\ StartsFetch(r, "fetch_jwks") =>
                 LET T == lastFillT[auth'[r].key] IN
                 T < 0 \/ clock >= T + _JWKS_TTL_SECONDS
            /\ DiscoveryHit(r) =>
                 /\ auth'[r].disc.value = discovery_cache[auth'[r].disc.key].value
                 /\ discovery_cache' = discovery_cache
            /\ JwksHit(r) =>
                 /\ auth'[r].jwks.value = jwks_cache[auth'[r].jwks.key].value
                 /\ jwks_cache' = jwks_cache]_vars

\* a lookup at the expiry time went to the network, and another lookup
\* after it was answered with the refreshed entry
C9_Witness ==
    \E r, r2 \in AuthSlots :
        /\ r # r2
        /\ auth[r].disc.src = "network"
        /\ auth[r].disc.now >= _DISCOVERY_TTL_SECONDS
        /\ auth[r2].disc.src = "cache"
        /\ auth[r2].disc.now >= _DISCOVERY_TTL_SECONDS
        /\ auth[r2].disc.expires = auth[r].disc.expires

\* C10: with an issuer configured, discovery is fetched and cached for that
\* issuer only; a token of another issuer is rejected before any discovery
\* lookup and never verified.
C10_ConfiguredIssuerOnly ==
    settings.oauth2_issuer # None =>
        /\ DOMAIN discovery_cache \subseteq {settings.oauth2_issuer}
        /\ \A r \in AuthSlots :
              /\ auth[r].pc = "fetch_discovery" => auth[r].key = settings.oauth2_issuer
              /\ auth[r].disc.src # "none" => auth[r].disc.key = settings.oauth2_issuer
              /\ auth[r].pc = "done" /\ auth[r].token.present
                   /\ auth[r].token.iss # settings.oauth2_issuer
                 => /\ auth[r].disc.src = "none"
                    /\ ~JwtVerified(auth[r])

\* a token of issB rejected while issA is configured and cached
C10_Witness ==
    /\ settings.oauth2_issuer = "issA"
    /\ settings.oauth2_jwks_url = None
    /\ Resolved.pc = "done"
    /\ Resolved.token.present
    /\ Resolved.token.iss = "issB"
    /\ Resolved.token.kid = "k1"
    /\ Resolved.token.signed_by = "k1"
    /\ Resolved.outcome = "AuthError"
    /\ DOMAIN discovery_cache = {"issA"}

\* the row of an id before and after a step
RowBefore(id) == get_attachment_any(id)
RowAfter(id) == get_attachment_any(id)'

\* C30: GET /attachments/{id}/raw and DELETE /attachments/{id} answer 404
\* exactly when the id has no row and 403 exactly when the row exists and
\* the caller may not read, respectively delete, it; delete_attachment_any
\* of an id without a row returns None and leaves the table as it is, and
\* of an id with a row returns that row and removes it and no other, so
\* that get_attachment_any of the id finds nothing afterwards.
C30_NotFoundOrForbidden ==
    [][/\ resp' # resp /\ resp'.op = "raw" =>
             LET att == RowBefore(resp'.id) IN
             /\ resp'.status = 404 <=> att = NoAtt
             /\ resp'.status = 403 <=> att # NoAtt /\ ~MayRead(att, resp'.user)
             /\ resp'.status \in {200, 403, 404}
       /\ resp' # resp /\ resp'.op = "delete" /\ resp'.status # 200 =>
             LET att == RowBefore(resp'.id) IN
             /\ resp'.status = 404 <=> att = NoAtt
             /\ resp'.status = 403 <=> att # NoAtt /\ ~MayDelete(att, resp'.user)
             /\ resp'.status \in {403, 404}
       /\ \A d \in DelSlots :
             /\ del[d].pc = "idle" /\ del'[d].pc = "row" =>
                   RowBefore(del'[d].id) # NoAtt /\ MayDelete(RowBefore(del'[d].id), del'[d].user)
             /\ del[d].pc = "row" /\ del'[d].pc = "blob" =>
                   LET prior == RowBefore(del[d].id) IN
                   /\ del'[d].deleted = prior
                   /\ attachments' = attachments \ {prior}
                   /\ prior = NoAtt => attachments' = attachments
                   /\ RowAfter(del[d].id) = NoAtt
                   /\ blobs' = blobs]_vars

\* one DELETE has removed the row of a1 and got it back, a second DELETE
\* that had passed its checks before got None, and a GET of a1 was answered
\* 404
C30_Witness ==
    /\ del["d1"].pc = "blob"
    /\ del["d1"].deleted.id = "a1"
    /\ del["d2"].pc = "blob"
    /\ del["d2"].id = "a1"
    /\ del["d2"].deleted = NoAtt
    /\ resp.op = "raw"
    /\ resp.id = "a1"
    /\ resp.status = 404
    /\ \E a \in attachments : a.id = "a2"

\* the fetch of slot r fails in this step
FetchFailed(r) ==
    /\ auth[r].pc \in {"fetch_discovery", "fetch_jwks"}
    /\ auth'[r].pc = "done"
    /\ auth'[r].error = "fetch failed"

\* the request of slot r ended with a failed fetch of key
FailedOn(r, key) ==
    auth[r].pc = "done" /\ auth[r].error = "fetch failed" /\ auth[r].key = key

\* C31: a failed fetch of a discovery document or a key set ends the
\* lookup with an error and no value, and leaves the two caches as they
\* were: every key is live after the step exactly when it was before, and
\* a key whose only fetches failed has no entry, so the next lookup of it
\* goes to the network.
C31_FailedFetchFrame ==
    /\ [][\A r \in AuthSlots :
            FetchFailed(r) =>
              /\ auth'[r].outcome = "AuthError"
              /\ auth[r].pc = "fetch_discovery" => auth'[r].disc = NoLookup
              /\ auth'[r].jwks = NoLookup
              /\ discovery_cache' = discovery_cache
              /\ jwks_cache' = jwks_cache
              /\ \A k \in CacheKeys :
                    /\ CacheLive(discovery_cache', k, clock')
                          <=> CacheLive(discovery_cache, k, clock)
                    /\ CacheLive(jwks_cache', k, clock') <=> CacheLive(jwks_cache, k, clock)]_vars
    /\ [](\A r \in AuthSlots, k \in CacheKeys :
            FailedOn(r, k) /\ lastFillT[k] < 0 =>
                k \notin DOMAIN discovery_cache /\ k \notin DOMAIN jwks_cache)
    /\ [][\A r, r2 \in AuthSlots :
            FailedOn(r, auth'[r2].key) /\ lastFillT[auth'[r2].key] < 0 /\ auth[r2].pc = "idle"
              /\ auth'[r2].pc # "idle" /\ auth'[r2].key # None
            => auth'[r2].pc \in {"fetch_discovery", "fetch_jwks"}]_vars

\* the fetch of a key set failed for one request; the next request was
\* served the discovery document from the cache and fetches the key set
\* again
C31_Witness ==
    /\ FailedOn("r1", auth["r1"].key)
    /\ auth["r1"].disc.src = "cache"
    /\ auth["r2"].pc = "fetch_jwks"
    /\ auth["r2"].key = auth["r1"].key
    /\ auth["r2"].now > auth["r1"].now
    /\ auth["r2"].disc.src = "cache"
    /\ auth["r2"].disc.now > auth["r1"].now
    /\ lastFillT[auth["r1"].key] < 0

\* C32: every stored message belongs to a conversation row with its
\* conversation id and its user id.
C32_ReferentialIntegrity ==
    \A i \in DOMAIN messages : Owns(messages[i].user_id, messages[i].conversation_id)

\* the positions of the messages table holding rows of (user_id, cid)
RowsOf(user_id, cid) ==
    { k \in DOMAIN messages :
        messages[k].user_id = user_id /\ messages[k].conversation_id = cid }

\* the rows of the two tables that belong to user_id
ConversationsOfUser(user_id) == { c \in conversations : c.user_id = user_id }
MessagesOfUser(user_id) == SelectSeq(messages, LAMBDA m : m.user_id = user_id)

\* C33: list_messages(u, c) returns only messages stored under u,
\* list_conversations(u) returns only conversation rows of u, with the
\* count and the snippet taken from u's messages alone, and
\* delete_conversation(u, c) leaves the conversation rows and the messages
\* of every other user as they were, also when two users use the same id.
C33_PerUserIsolation ==
    /\ [](call.op = "list_messages" =>
            \A i \in DOMAIN call.result :
                /\ \E k \in RowsOf(call.user_id, call.conversation_id) :
                      Listed(messages[k]) = call.result[i]
                /\ \A k \in DOMAIN messages :
                      messages[k].user_id # call.user_id
                        => Listed(messages[k]) # call.result[i])
    /\ [](call.op = "list_conversations" =>
            \A i \in DOMAIN call.result :
                LET item == call.result[i]
                    mine == RowsOf(call.user_id, item.conversation_id) IN
                /\ \E c \in ConversationsOfUser(call.user_id) :
                      c.conversation_id = item.conversation_id
                /\ item.message_count = Cardinality(mine)
                /\ \/ item.last_snippet = NoSnippet /\ mine = {}
                   \/ \E k \in mine : item.last_snippet = Substr(messages[k].content, SnippetLen))
    /\ [][CallStep("delete_conversation") =>
            \A v \in Users \ {call'.user_id} :
                /\ ConversationsOfUser(v)' = ConversationsOfUser(v)
                /\ MessagesOfUser(v)' = MessagesOfUser(v)]_vars

\* alice lists c1 and gets her two messages while the table also holds a
\* message bob stored under c1
C33_Witness ==
    /\ call.op = "list_messages"
    /\ call.user_id = "alice"
    /\ call.conversation_id = "c1"
    /\ Len(call.result) = 2
    /\ RowsOf("bob", "c1") # {}

\* C34: GET /conversations/{id}/messages answers 404 exactly when the
\* caller owns no conversation with the id, answers with the messages of
\* the conversation otherwise, and creates no conversation.
C34_MessagesOr404 ==
    /\ [](call.op = "conversation_scan" /\ call.result.status = 404
             => ~Owns(call.user_id, call.conversation_id))
    /\ [](call.op = "conversation_messages" =>
             /\ Owns(call.user_id, call.conversation_id)
             /\ call.result.messages
                   = ListMessages(call.user_id, call.conversation_id, call.limit))
    /\ [][CallStep("conversation_scan") \/ CallStep("conversation_messages")
             => conversations' = conversations /\ messages' = messages]_vars

\* the DELETE request of slot d calls delete_upload and answers in this step
AnswersDeleted(d) ==
    /\ del[d].pc = "blob"
    /\ del'[d].pc = "idle"
    /\ resp'.op = "delete"
    /\ resp'.status = 200

\* C35: of the DELETE requests that passed the checks for one attachment,
\* only the one whose delete_attachment_any removed the row answers
\* "deleted" and calls the blob delete; a request that found the row gone
\* does neither.
C35_OneDeleted ==
    [][\A d \in DelSlots : AnswersDeleted(d) => del[d].deleted # NoAtt]_vars

\* the /chat request was answered 403 (attachment) or 500 (retrieval)
\* before the stream started
ChatRejected == chat.pc = "rejected" /\ chat.status \in {403, 500}

\* C36: after a rejected /chat request the store holds no conversation
\* the request created and no user message the request stored.
C36_RejectedLeavesNoTrace ==
    ChatRejected =>
        /\ ~chat.user_saved
        /\ chat.is_new => chat.conv \notin ConvIdsInUse
        /\ chat.conv \in FreshConvIds => RowsOf(chat.user.user_id, chat.conv) = {}

\* this step inserts an assistant message
StoresAssistant ==
    /\ Len(messages') = Len(messages) + 1
    /\ messages'[Len(messages')].role = "assistant"

\* this step emits the done event
EmitsDone ==
    /\ Len(chat'.events) = Len(chat.events) + 1
    /\ chat'.events[Len(chat'.events)].type = "done"

\* the assistant messages stored under the conversation of the request
AssistantRows ==
    { k \in DOMAIN messages :
        /\ messages[k].conversation_id = chat.conv
        /\ messages[k].user_id = chat.user.user_id
        /\ messages[k].role = "assistant" }

\* C37: an assistant message is inserted only by a request whose
\* generation ran to completion, at its append step and with the joined
\* fragments; a stream that was cancelled or whose generation raised before
\* completion has stored none; and done is emitted only by the step that
\* follows the return of that append, whether the insert succeeded or not.
C37_AssistantAfterCompletion ==
    /\ [](chat.generation # "completed" => ~chat.assistant_saved)
    /\ [](chat.generation # "completed" /\ chat.conv \in FreshConvIds => AssistantRows = {})
    /\ [][/\ StoresAssistant =>
               /\ chat.generation = "completed"
               /\ chat.pc = "append_assistant"
               /\ messages' = Append(messages, MsgRow(chat.user.user_id, chat.conv, "assistant",
                                                      Join(chat.parts), clock))
          /\ EmitsDone =>
               /\ chat.pc = "done"
               /\ chat.generation = "completed"
               /\ messages' = messages
          /\ chat'.pc = "done" /\ chat.pc # "done" => chat.pc = "append_assistant"]_vars

\* a stream on a new conversation that the client left after one fragment,
\* and whose conversation holds the user message alone
C37_Witness ==
    /\ chat.cancelled
    /\ chat.pc = "closed"
    /\ chat.generation = "running"
    /\ Len(chat.parts) = 1
    /\ chat.conv \in FreshConvIds
    /\ chat.user_saved
    /\ RowsOf(chat.user.user_id, chat.conv) # {}
    /\ AssistantRows = {}

\* the attachment id the loop of the /chat request is at has no row
AtUnknownId ==
    /\ chat.pc = "load"
    /\ chat.idx <= Len(chat.req.attachment_ids)
    /\ \A a \in attachments : a.id # chat.req.attachment_ids[chat.idx]

\* the ids of the request that have a row, in the order of the request
KnownIds(ids) == SelectSeq(ids, LAMBDA id : \E a \in attachments : a.id = id)

\* C38: in /chat an attachment id without a row is passed over: the loop
\* goes on to the next id with the same attachments resolved and no status
\* set, no /chat request ends in 404, and a request that gets past the loop
\* has resolved exactly the ids that have a row, in the order of the
\* request, which are the files of its attached-files block.
C38_UnknownIdSkipped ==
    /\ [][AtUnknownId /\ chat' # chat =>
            /\ chat'.pc = "load"
            /\ chat'.idx = chat.idx + 1
            /\ chat'.attached = chat.attached
            /\ chat'.status = chat.status]_vars
    /\ [](chat.status # 404)
    /\ [](impl = "celine" /\ (chat.pc = "retrieve" \/ (chat.retrieved /\ chat.status = 200)) =>
            LET ids == KnownIds(chat.req.attachment_ids) IN
            /\ Len(chat.attached) = Len(ids)
            /\ \A i \in DOMAIN ids : chat.attached[i] = get_attachment_any(ids[i])
            /\ chat.pc \in StreamPcs /\ ids # <<>> =>
                  /\ Len(chat.sources[1].files) = Len(ids)
                  /\ \A i \in DOMAIN ids : chat.sources[1].files[i].filename = ids[i])

\* bob names a2, which has no row, before his own a1; the stream runs
\* with a1 as the only attached file
C38_Witness ==
    /\ chat.pc = "generate"
    /\ chat.user.user_id = "bob"
    /\ chat.req.attachment_ids = <<"a2", "a1">>
    /\ get_attachment_any("a2") = NoAtt
    /\ Len(chat.attached) = 1
    /\ chat.attached[1].id = "a1"
    /\ Len(chat.sources[1].files) = 1

\* the conversation rows with the id cid
RowsWithId(cid) == { c \in conversations : c.conversation_id = cid }

\* C39: however get_or_create calls of one or two users for the same id
\* overlap, no two conversation rows share an id, every call returns the
\* id it was given, exactly one row with that id exists when it has
\* returned, and a call never removes or replaces a row.
C39_UniqueConversationIds ==
    /\ [](\A c, d \in conversations : c.conversation_id = d.conversation_id => c = d)
    /\ [](call.op = "get_or_create" =>
            /\ call.result = call.conversation_id
            /\ Cardinality(RowsWithId(call.result)) = 1)
    /\ [][CallStep("get_or_create") =>
            /\ conversations \subseteq conversations'
            /\ Cardinality(conversations') <= Cardinality(conversations) + 1]_vars

\* a call of alice inserted the row of the new id x1, bob's call for x1
\* has returned x1 as well, and a further call of alice for x1 waits
C39_Witness ==
    /\ call.op = "get_or_create"
    /\ call.user_id = "bob"
    /\ call.result = "x1"
    /\ RowsWithId("x1") = {ConvRow("x1", "alice", 0)}
    /\ \E t \in StoreTasks :
          /\ work.tasks[t].pc = "wait"
          /\ work.tasks[t].op = StoreOp("get_or_create", "alice", "x1", None, None)
    /\ clock > 0

====
